---- MODULE Spec2Model ----
(***************************************************************************)
(* A model of the numerical-flux core of ccfd: the flux kernels of         *)
(* src/src/fluxCalculation.c, the per-side loop fluxCalculation and the    *)
(* per-cell source quadrature calcSource of src/src/source.c.              *)
(*                                                                         *)
(* A C double is modelled by an exact rational <<n, d>> in lowest terms    *)
(* with d >= 0; d = 0 holds the IEEE specials (+Inf = <<1,0>>,             *)
(* -Inf = <<-1,0>>, NaN = <<0,0>>).  Signed zeros are not modelled.  The    *)
(* kernels are evaluated in exact arithmetic, on inputs whose square roots *)
(* are rational (see the Representable predicates) or with square roots    *)
(* rounded down to 1 / SqrtScale; flux_ausmd is evaluated in rounded       *)
(* arithmetic as well (see the operators Fl...).                           *)
(***************************************************************************)
EXTENDS Integers, Sequences, FiniteSets, TLC

(***************************************************************************)
(* double arithmetic                                                       *)
(***************************************************************************)
Abs(n) == IF n < 0 THEN -n ELSE n

Sign(n) == IF n < 0 THEN -1 ELSE IF n > 0 THEN 1 ELSE 0

RECURSIVE GCD(_, _)
GCD(a, b) == IF b = 0 THEN a ELSE GCD(b, a % b)

\* the double n/d, normalised; a zero denominator gives +Inf, -Inf or NaN
Q(n, d) ==
    IF d = 0 THEN <<Sign(n), 0>>
    ELSE LET g == GCD(Abs(n), Abs(d))
         IN  IF d < 0 THEN <<(-n) \div g, (-d) \div g>> ELSE <<n \div g, d \div g>>

I(n) == <<n, 1>>

NaN == <<0, 0>>

PosInf == <<1, 0>>

IsNaN(a) == a = NaN

IsFinite(a) == a[2] # 0

Zero == I(0)

One == I(1)

Half == <<1, 2>>

Add(a, b) ==
    IF a[2] = 0 /\ b[2] = 0
    THEN (IF a = b THEN a ELSE NaN)
    ELSE LET g == GCD(a[2], b[2])
         IN  IF g = 0 THEN Q(a[1] * b[2] + b[1] * a[2], 0)
             ELSE Q(a[1] * (b[2] \div g) + b[1] * (a[2] \div g), (a[2] \div g) * b[2])

Neg(a) == <<-a[1], a[2]>>

Sub(a, b) == Add(a, Neg(b))

Mul(a, b) == Q(a[1] * b[1], a[2] * b[2])

Div(a, b) ==
    IF a[2] = 0 /\ b[2] = 0 THEN NaN
    ELSE IF b[1] < 0 THEN Q(-(a[1] * b[2]), -(a[2] * b[1]))
    ELSE Q(a[1] * b[2], a[2] * b[1])

Lt(a, b) ==
    IF a[2] = 0 /\ b[2] = 0
    THEN a[1] < 0 /\ b[1] > 0
    ELSE a[1] * b[2] < b[1] * a[2]

Gt(a, b) == Lt(b, a)

Le(a, b) == ~IsNaN(a) /\ ~IsNaN(b) /\ ~Lt(b, a)

Ge(a, b) == Le(b, a)

fabs(a) == <<Abs(a[1]), a[2]>>

fmax(a, b) == IF IsNaN(a) THEN b ELSE IF IsNaN(b) THEN a ELSE IF Lt(a, b) THEN b ELSE a

fmin(a, b) == IF IsNaN(a) THEN b ELSE IF IsNaN(b) THEN a ELSE IF Lt(b, a) THEN b ELSE a

Sq(a) == Mul(a, a)

\* Newton's iteration for the integer square root of n > 0, from the guess x
RECURSIVE Newton(_, _)
Newton(n, x) ==
    LET y == (x + (n \div x)) \div 2
    IN  IF y >= x THEN x ELSE Newton(n, y)

\* the largest k with k * k <= n
FloorSqrt(n) == IF n = 0 THEN 0 ELSE Newton(n, n)

\* whether the natural number n is a perfect square
IsSquareNat(n) == FloorSqrt(n) * FloorSqrt(n) = n

\* the exact root of a perfect square (no value otherwise: TLC stops)
ISqrt(n) == CHOOSE k \in {FloorSqrt(n)} : k * k = n

\* whether sqrt(a) is a double of the model (a rational, or a special)
IsSquare(a) == a[2] = 0 \/ a[1] < 0 \/ (IsSquareNat(a[1]) /\ IsSquareNat(a[2]))

\* the denominator to which the root of a rational that is no perfect square
\* is rounded
SqrtScale == 256

\* the root of a positive rational that is no perfect square, rounded down
\* to a multiple of 1 / SqrtScale
RoundedSqrt(a) == Q(FloorSqrt(((a[1] * SqrtScale) \div a[2]) * SqrtScale), SqrtScale)

\* sqrt: exact on the perfect squares, rounded on the other rationals
sqrt(a) ==
    IF a[2] = 0 THEN (IF a = PosInf THEN PosInf ELSE NaN)
    ELSE IF a[1] < 0 THEN NaN
    ELSE IF IsSquareNat(a[1]) /\ IsSquareNat(a[2]) THEN <<ISqrt(a[1]), ISqrt(a[2])>>
    ELSE RoundedSqrt(a)

RECURSIVE Pow10(_)
Pow10(k) == IF k = 0 THEN 1 ELSE 10 * Pow10(k - 1)

(***************************************************************************)
(* rounded arithmetic.  Where the rounding of a double operation matters,  *)
(* a double is a binary floating-point number with a significand of        *)
(* MantissaBits bits (53 in C) and every operation rounds its exact result *)
(* to the nearest such number, ties to the even significand.               *)
(***************************************************************************)
MantissaBits == 3

RECURSIVE Pow2(_)
Pow2(k) == IF k = 0 THEN 1 ELSE 2 * Pow2(k - 1)

\* a * 2^k
Scale(a, k) == IF k >= 0 THEN Q(a[1] * Pow2(k), a[2]) ELSE Q(a[1], a[2] * Pow2(-k))

\* the binary exponent e of n / d > 0: 2^e <= n / d < 2^(e + 1)
RECURSIVE Exponent(_, _)
Exponent(n, d) ==
    IF n >= 2 * d THEN Exponent(n, 2 * d) + 1
    ELSE IF n < d THEN Exponent(2 * n, d) - 1
    ELSE 0

\* the integer nearest to n / d >= 0, ties to even
NearestEven(n, d) ==
    LET m == n \div d
        r == 2 * (n - m * d)
    IN  IF r > d \/ (r = d /\ m % 2 = 1) THEN m + 1 ELSE m

\* the smallest binary exponent of a normal double is -MaxUnderflow (-1022
\* in C); below it the spacing of the doubles stays that of this exponent
MaxUnderflow == 4

\* the double nearest to the finite a > 0
RoundPositive(a) ==
    LET e == IF Exponent(a[1], a[2]) < -MaxUnderflow
             THEN -MaxUnderflow ELSE Exponent(a[1], a[2])
        q == Scale(a, MantissaBits - 1 - e)
    IN  Scale(I(NearestEven(q[1], q[2])), e - MantissaBits + 1)

\* the double nearest to a
Fl(a) ==
    IF a[2] = 0 \/ a[1] = 0 THEN a
    ELSE IF a[1] < 0 THEN Neg(RoundPositive(Neg(a)))
    ELSE RoundPositive(a)

\* the operations of C on doubles
FlAdd(a, b) == Fl(Add(a, b))

FlSub(a, b) == Fl(Sub(a, b))

FlMul(a, b) == Fl(Mul(a, b))

FlDiv(a, b) == Fl(Div(a, b))

\* the unit in the last place of the double a > 0
Ulp(a) ==
    Scale(One, (IF Exponent(a[1], a[2]) < -MaxUnderflow
                THEN -MaxUnderflow ELSE Exponent(a[1], a[2])) - MantissaBits + 1)

\* whether the double a > 0 is a normal one
IsNormal(a) == a[2] # 0 /\ a[1] > 0 /\ Exponent(a[1], a[2]) >= -MaxUnderflow

\* sqrt of C: the double nearest to the square root of the double a > 0,
\* found between the largest double f with f * f <= a and its successor
RECURSIVE SqrtBelow(_, _)
SqrtBelow(a, f) ==
    IF Le(Sq(Add(f, Ulp(f))), a) THEN SqrtBelow(a, Add(f, Ulp(f))) ELSE f

FlSqrt(a) ==
    IF a[2] = 0 \/ a[1] <= 0 THEN sqrt(a)
    ELSE LET e == Exponent(a[1], a[2])
             f == SqrtBelow(a, Scale(One, (e - (e % 2)) \div 2))
             mid == Add(f, Scale(Ulp(f), -1))
         IN  IF Lt(Sq(mid), a) THEN Add(f, Ulp(f)) ELSE f

\* a vector of four doubles
Vec4(a, b, c, d) == <<a, b, c, d>>

ZeroVec == Vec4(Zero, Zero, Zero, Zero)

VecNeg(f) == [k \in 1..4 |-> Neg(f[k])]

VecFinite(f) == \A k \in 1..4 : IsFinite(f[k])

(***************************************************************************)
(* configuration and gas constants                                         *)
(***************************************************************************)
VARIABLES
    iFlux,          \* the configured flux scheme identifier
    navierstokes,   \* whether the viscous terms are compiled in
    riemann         \* the star state <<rho, vx, p>> the exact Riemann solver
                    \* returns for a problem with distinct left/right states

\* indices of a state or flux vector (C indices 0..3)
RHO == 1

VX == 2

VY == 3

P == 4

MX == 2

MY == 3

E == 4

X == 1

Y == 2

\* ratio of specific heats (gamma = 1.4) and the constants derived from it
gam == Q(7, 5)

gam1 == Sub(gam, One)

gam1q == Div(One, gam1)

\* viscosity and Prandtl number (mu = 0.0008, Pr = 0.72)
mu == Q(1, 1250)

Pr == Q(18, 25)

Schemes == {"GOD", "ROE", "HLL", "HLLE", "HLLC", "LXF", "STW", "CEN", "AUSMD", "AUSMDV", "VANLEER"}

(***************************************************************************)
(* the flux kernels                                                        *)
(***************************************************************************)
\* the exact Riemann solver (exactRiemann.h, outside the source files): the
\* state between two equal states is that state; any other problem's star
\* state is the model's input riemann
exactRiemann(rhoL, rhoR, vxL, vxR, pL, pR, cL, cR) ==
    IF rhoL = rhoR /\ vxL = vxR /\ pL = pR THEN <<rhoL, vxL, pL>> ELSE riemann

\* a faulty Godunov flux: the tangential velocity is taken downwind
flux_godDownwind(rhoL, rhoR, vxL, vxR, vyL, vyR, pL, pR) ==
    LET cL == sqrt(Div(Mul(gam, pL), rhoL))
        cR == sqrt(Div(Mul(gam, pR), rhoR))
        star == exactRiemann(rhoL, rhoR, vxL, vxR, pL, pR, cL, cR)
        rho == star[1]
        vx == star[2]
        p == star[3]
        vy == IF Gt(vx, Zero) THEN vyR ELSE vyL
    IN  [k \in 1..4 |->
            CASE k = RHO -> Mul(rho, vx)
              [] k = MX -> Add(Mul(Mul(rho, vx), vx), p)
              [] k = MY -> Mul(Mul(rho, vx), vy)
              [] k = E -> Mul(vx, Add(Mul(Div(gam, gam1), p),
                                      Mul(Mul(Half, rho), Add(Mul(vx, vx), Mul(vy, vy)))))]

flux_god(rhoL, rhoR, vxL, vxR, vyL, vyR, pL, pR) ==
    LET cL == sqrt(Div(Mul(gam, pL), rhoL))
        cR == sqrt(Div(Mul(gam, pR), rhoR))
        star == exactRiemann(rhoL, rhoR, vxL, vxR, pL, pR, cL, cR)
        rho == star[1]
        vx == star[2]
        p == star[3]
        vy == IF Gt(vx, Zero) THEN vyL ELSE vyR
    IN  [k \in 1..4 |->
            CASE k = RHO -> Mul(rho, vx)
              [] k = MX -> Add(Mul(Mul(rho, vx), vx), p)
              [] k = MY -> Mul(Mul(rho, vx), vy)
              [] k = E -> Mul(vx, Add(Mul(Div(gam, gam1), p),
                                      Mul(Mul(Half, rho), Add(Mul(vx, vx), Mul(vy, vy)))))]

\* total energy per volume of a primitive state
Energy(rho, vx, vy, p) ==
    Add(Mul(gam1q, p), Mul(Mul(Half, rho), Add(Mul(vx, vx), Mul(vy, vy))))

\* the specific total enthalpy of a primitive state
Enthalpy(rho, vx, vy, p) == Div(Add(Energy(rho, vx, vy, p), p), rho)

\* the conservative state <<rho, mx, my, e>> of a primitive state
Conserved(rho, vx, vy, p) ==
    <<rho, Mul(rho, vx), Mul(rho, vy), Energy(rho, vx, vy, p)>>

\* the physical flux of a primitive state in the x direction
PhysFlux(rho, vx, vy, p) ==
    <<Mul(rho, vx),
      Add(Mul(Mul(rho, vx), vx), p),
      Mul(Mul(rho, vx), vy),
      Mul(vx, Add(Energy(rho, vx, vy, p), p))>>

\* the sound speed of a primitive state
Sound(rho, p) == sqrt(Div(Mul(gam, p), rho))

\* the Roe mean values <<vxBar, vyBar, Hbar>> of two states
RoeMean(rhoL, rhoR, vxL, vxR, vyL, vyR, pL, pR) ==
    LET HR == Enthalpy(rhoR, vxR, vyR, pR)
        HL == Enthalpy(rhoL, vxL, vyL, pL)
        rhoSqR == sqrt(rhoR)
        rhoSqL == sqrt(rhoL)
        rhoSqQsum == Div(One, Add(rhoSqL, rhoSqR))
    IN  <<Mul(Add(Mul(rhoSqR, vxR), Mul(rhoSqL, vxL)), rhoSqQsum),
          Mul(Add(Mul(rhoSqR, vyR), Mul(rhoSqL, vyL)), rhoSqQsum),
          Mul(Add(Mul(rhoSqR, HR), Mul(rhoSqL, HL)), rhoSqQsum)>>

\* the square of the Roe-mean sound speed for the mean values m
RoeSoundArg(m) ==
    Mul(gam1, Sub(m[3], Mul(Half, Add(Mul(m[1], m[1]), Mul(m[2], m[2])))))

\* the argument of the square root giving the Roe-mean sound speed
RoeMeanArg(rhoL, rhoR, vxL, vxR, vyL, vyR, pL, pR) ==
    RoeSoundArg(RoeMean(rhoL, rhoR, vxL, vxR, vyL, vyR, pL, pR))

\* a faulty entropy fix: the blend is taken also when |a| equals da
roe_entropyFixInclusive(a, al, ar) ==
    LET da == fmax(fmax(Zero, Sub(a, al)), Sub(ar, a))
    IN  IF Le(fabs(a), da)
        THEN Mul(Half, Add(Div(Mul(a, a), da), da))
        ELSE fabs(a)

\* the entropy-fixed wave speed of flux_roe: a is the Roe eigenvalue, al and
\* ar the left and right physical eigenvalues
roe_entropyFix(a, al, ar) ==
    LET da == fmax(fmax(Zero, Sub(a, al)), Sub(ar, a))
    IN  IF Lt(fabs(a), da)
        THEN Mul(Half, Add(Div(Mul(a, a), da), da))
        ELSE fabs(a)

\* the wave strengths <<gam1, gam2, gam3, gam4>> of flux_roe for the jump
\* del of the conservative state
roe_strengths(del, vxBar, vyBar, Hbar, cBar) ==
    LET delEq == Sub(del[E], Mul(Sub(del[MY], Mul(vyBar, del[RHO])), vyBar))
        cBarQ == Div(One, cBar)
        gamW2 == Mul(Mul(Mul(Neg(gam1), cBarQ), cBarQ),
                     Sub(Add(Mul(del[RHO], Sub(Mul(vxBar, vxBar), Hbar)), delEq),
                         Mul(del[MX], vxBar)))
        gamW1 == Sub(Mul(Mul(Neg(Half), cBarQ),
                         Sub(del[MX], Mul(del[RHO], Add(vxBar, cBar)))),
                     Mul(Half, gamW2))
    IN  <<gamW1, gamW2, Sub(del[MY], Mul(vyBar, del[RHO])),
          Sub(Sub(del[RHO], gamW1), gamW2)>>

\* the Roe flux from the physical fluxes, the wave strengths w, the fixed
\* wave speeds a and the right eigenvectors r
roe_sum(fL, fR, w, a, r) ==
    [i \in 1..4 |->
        Mul(Half, Sub(Sub(Sub(Sub(Add(fR[i], fL[i]),
                                  Mul(Mul(w[1], fabs(a[1])), r[1][i])),
                              Mul(Mul(w[2], fabs(a[2])), r[2][i])),
                          Mul(Mul(w[3], fabs(a[3])), r[3][i])),
                      Mul(Mul(w[4], fabs(a[4])), r[4][i])))]

\* flux_roe once the Roe means and the sound speeds are known
roe_waves(rhoL, rhoR, vxL, vxR, vyL, vyR, pL, pR, vxBar, vyBar, Hbar, cBar, cL, cR) ==
    LET a0 == <<Sub(vxBar, cBar), vxBar, vxBar, Add(vxBar, cBar)>>
        r == <<<<One, Sub(vxBar, cBar), vyBar, Sub(Hbar, Mul(vxBar, cBar))>>,
               <<One, vxBar, vyBar, Mul(Half, Add(Mul(vxBar, vxBar), Mul(vyBar, vyBar)))>>,
               <<Zero, Zero, One, vyBar>>,
               <<One, Add(vxBar, cBar), vyBar, Add(Hbar, Mul(vxBar, cBar))>>>>
        uL == Conserved(rhoL, vxL, vyL, pL)
        uR == Conserved(rhoR, vxR, vyR, pR)
        al == <<Sub(vxL, cL), vxL, vxL, Add(vxL, cL)>>
        ar == <<Sub(vxR, cR), vxR, vxR, Add(vxR, cR)>>
    IN  roe_sum(PhysFlux(rhoL, vxL, vyL, pL), PhysFlux(rhoR, vxR, vyR, pR),
                roe_strengths([k \in 1..4 |-> Sub(uR[k], uL[k])], vxBar, vyBar, Hbar, cBar),
                [i \in 1..4 |-> roe_entropyFix(a0[i], al[i], ar[i])],
                r)

\* flux_roe for the Roe means m
roe_flux(rhoL, rhoR, vxL, vxR, vyL, vyR, pL, pR, m) ==
    roe_waves(rhoL, rhoR, vxL, vxR, vyL, vyR, pL, pR,
              m[1], m[2], m[3], sqrt(RoeSoundArg(m)), Sound(rhoL, pL), Sound(rhoR, pR))

flux_roe(rhoL, rhoR, vxL, vxR, vyL, vyR, pL, pR) ==
    roe_flux(rhoL, rhoR, vxL, vxR, vyL, vyR, pL, pR,
             RoeMean(rhoL, rhoR, vxL, vxR, vyL, vyR, pL, pR))

\* the two-wave average of flux_hll and flux_hlle for signal speeds alm, arp
hll_average(alm, arp, fL, fR, uL, uR) ==
    LET arpAlmQ == Div(One, Sub(arp, alm))
    IN  [k \in 1..4 |->
            Add(Mul(Sub(Mul(arp, fL[k]), Mul(alm, fR[k])), arpAlmQ),
                Mul(Mul(Mul(arp, alm), arpAlmQ), Sub(uR[k], uL[k])))]

\* the signal speeds <<alm, arp>> from the sound speeds cL and cR, the mean
\* velocity uM and the mean signal speed cM
hll_bounds(vxL, vxR, cL, cR, uM, cM) ==
    <<fmin(Sub(vxL, cL), Sub(uM, cM)), fmax(Add(vxR, cR), Add(uM, cM))>>

\* the sound speed as flux_hll computes it, with the reciprocal density
hll_sound(rho, p) == sqrt(Mul(Mul(gam, p), Div(One, rho)))

\* the signal speeds of flux_hll and flux_hllc for the Roe means m
hll_roeSpeeds(rhoL, rhoR, vxL, vxR, pL, pR, m) ==
    hll_bounds(vxL, vxR, hll_sound(rhoL, pL), hll_sound(rhoR, pR),
               m[1], sqrt(RoeSoundArg(m)))

\* the signal speeds <<alm, arp>> of flux_hll and flux_hllc
hll_speeds(rhoL, rhoR, vxL, vxR, vyL, vyR, pL, pR) ==
    hll_roeSpeeds(rhoL, rhoR, vxL, vxR, pL, pR,
                  RoeMean(rhoL, rhoR, vxL, vxR, vyL, vyR, pL, pR))

\* faulty branches: between the waves the mean of the two physical fluxes is
\* returned
hll_selectMean(sp, uL, uR, fL, fR) ==
    IF Gt(sp[1], Zero) THEN fL
    ELSE IF Lt(sp[2], Zero) THEN fR
    ELSE [k \in 1..4 |-> Mul(Half, Add(fL[k], fR[k]))]

\* the branches of flux_hll and flux_hlle for the signal speeds sp
hll_select(sp, uL, uR, fL, fR) ==
    IF Gt(sp[1], Zero) THEN fL
    ELSE IF Lt(sp[2], Zero) THEN fR
    ELSE hll_average(sp[1], sp[2], fL, fR, uL, uR)

flux_hll(rhoL, rhoR, vxL, vxR, vyL, vyR, pL, pR) ==
    hll_select(hll_speeds(rhoL, rhoR, vxL, vxR, vyL, vyR, pL, pR),
               Conserved(rhoL, vxL, vyL, pL), Conserved(rhoR, vxR, vyR, pR),
               PhysFlux(rhoL, vxL, vyL, pL), PhysFlux(rhoR, vxR, vyR, pR))

\* Einfeldt's d squared from the roots of the densities and the sound speeds
hlle_dSquare(rhoSqL, rhoSqR, cL, cR, vxL, vxR) ==
    LET eta2 == Div(Div(Mul(Mul(Half, rhoSqR), rhoSqL), Add(rhoSqR, rhoSqL)),
                    Add(rhoSqR, rhoSqL))
    IN  Add(Mul(Add(Mul(Mul(rhoSqR, cR), cR), Mul(Mul(rhoSqL, cL), cL)),
                Div(One, Add(rhoSqL, rhoSqR))),
            Mul(Mul(eta2, Sub(vxR, vxL)), Sub(vxR, vxL)))

\* the argument of the square root giving Einfeldt's d in flux_hlle
hlle_dArg(rhoL, rhoR, vxL, vxR, vyL, vyR, pL, pR) ==
    hlle_dSquare(sqrt(rhoL), sqrt(rhoR), hll_sound(rhoL, pL), hll_sound(rhoR, pR), vxL, vxR)

\* the mean velocity uM of flux_hlle
hlle_uM(rhoSqL, rhoSqR, vxL, vxR) ==
    Mul(Add(Mul(rhoSqR, vxR), Mul(rhoSqL, vxL)), Div(One, Add(rhoSqL, rhoSqR)))

\* the signal speeds <<alm, arp>> of flux_hlle
hlle_speeds(rhoL, rhoR, vxL, vxR, vyL, vyR, pL, pR) ==
    hll_bounds(vxL, vxR, hll_sound(rhoL, pL), hll_sound(rhoR, pR),
               hlle_uM(sqrt(rhoL), sqrt(rhoR), vxL, vxR),
               sqrt(hlle_dArg(rhoL, rhoR, vxL, vxR, vyL, vyR, pL, pR)))

flux_hlle(rhoL, rhoR, vxL, vxR, vyL, vyR, pL, pR) ==
    hll_select(hlle_speeds(rhoL, rhoR, vxL, vxR, vyL, vyR, pL, pR),
               Conserved(rhoL, vxL, vyL, pL), Conserved(rhoR, vxR, vyR, pR),
               PhysFlux(rhoL, vxL, vyL, pL), PhysFlux(rhoR, vxR, vyR, pR))

\* the contact speed as of flux_hllc
hllc_contact(rhoL, rhoR, vxL, vxR, pL, pR, alm, arp) ==
    Div(Sub(Add(Sub(pR, pL), Mul(Mul(rhoL, vxL), Sub(alm, vxL))),
            Mul(Mul(rhoR, vxR), Sub(arp, vxR))),
        Sub(Mul(rhoL, Sub(alm, vxL)), Mul(rhoR, Sub(arp, vxR))))

\* the star state of flux_hllc on one side whose factor is fac
hllc_starState(rho, vx, vy, p, e, s, as, fac) ==
    [k \in 1..4 |->
        CASE k = RHO -> fac
          [] k = MX -> Mul(as, fac)
          [] k = MY -> Mul(vy, fac)
          [] k = E -> Mul(fac, Add(Div(e, rho),
                                   Mul(Sub(as, vx), Add(as, Div(p, Mul(rho, Sub(s, vx)))))))]

\* the star-state flux of flux_hllc on one side: s is that side's signal
\* speed, as the contact speed, u and f its conservative state and flux
\* a faulty star flux: the jump across the wave s is taken with the wrong sign
hllc_starReversed(rho, vx, vy, p, e, s, as, u, f) ==
    LET us == hllc_starState(rho, vx, vy, p, e, s, as,
                             Div(Mul(rho, Sub(s, vx)), Sub(s, as)))
    IN  [k \in 1..4 |-> Add(f[k], Mul(s, Sub(u[k], us[k])))]

hllc_star(rho, vx, vy, p, e, s, as, u, f) ==
    LET us == hllc_starState(rho, vx, vy, p, e, s, as,
                             Div(Mul(rho, Sub(s, vx)), Sub(s, as)))
    IN  [k \in 1..4 |-> Add(f[k], Mul(s, Sub(us[k], u[k])))]

\* faulty branches: the star state is taken on the downwind side of the
\* contact
hllc_selectDownwind(rhoL, rhoR, vxL, vxR, vyL, vyR, pL, pR, alm, arp, as, uL, uR, fL, fR) ==
    IF Gt(alm, Zero) THEN fL
    ELSE IF Lt(arp, Zero) THEN fR
    ELSE IF Le(alm, Zero) /\ Le(as, Zero)
         THEN hllc_star(rhoL, vxL, vyL, pL, uL[E], alm, as, uL, fL)
         ELSE hllc_star(rhoR, vxR, vyR, pR, uR[E], arp, as, uR, fR)

\* the branches of flux_hllc for the signal speeds alm, arp and the contact
\* speed as
hllc_select(rhoL, rhoR, vxL, vxR, vyL, vyR, pL, pR, alm, arp, as, uL, uR, fL, fR) ==
    IF Gt(alm, Zero) THEN fL
    ELSE IF Lt(arp, Zero) THEN fR
    ELSE IF Le(alm, Zero) /\ Ge(as, Zero)
         THEN hllc_star(rhoL, vxL, vyL, pL, uL[E], alm, as, uL, fL)
         ELSE hllc_star(rhoR, vxR, vyR, pR, uR[E], arp, as, uR, fR)

\* flux_hllc for the signal speeds sp
hllc_flux(rhoL, rhoR, vxL, vxR, vyL, vyR, pL, pR, sp) ==
    hllc_select(rhoL, rhoR, vxL, vxR, vyL, vyR, pL, pR, sp[1], sp[2],
                hllc_contact(rhoL, rhoR, vxL, vxR, pL, pR, sp[1], sp[2]),
                Conserved(rhoL, vxL, vyL, pL), Conserved(rhoR, vxR, vyR, pR),
                PhysFlux(rhoL, vxL, vyL, pL), PhysFlux(rhoR, vxR, vyR, pR))

flux_hllc(rhoL, rhoR, vxL, vxR, vyL, vyR, pL, pR) ==
    hllc_flux(rhoL, rhoR, vxL, vxR, vyL, vyR, pL, pR,
              hll_speeds(rhoL, rhoR, vxL, vxR, vyL, vyR, pL, pR))

flux_lxf(rhoL, rhoR, vxL, vxR, vyL, vyR, pL, pR) ==
    LET cL == sqrt(Div(Mul(gam, pL), rhoL))
        cR == sqrt(Div(Mul(gam, pR), rhoR))
        a == fmax(Add(fabs(vxR), cR), Add(fabs(vxL), cL))
        eL == Energy(rhoL, vxL, vyL, pL)
        eR == Energy(rhoR, vxR, vyR, pR)
        delU == <<Sub(rhoR, rhoL),
                  Sub(Mul(rhoR, vxR), Mul(rhoL, vxL)),
                  Sub(Mul(rhoR, vyR), Mul(rhoL, vyL)),
                  Sub(eR, eL)>>
        fL == <<Mul(rhoL, vxL),
                Add(Mul(Mul(rhoL, vxL), vxL), pL),
                Mul(Mul(rhoL, vxL), vyL),
                Mul(vxL, Add(eL, pL))>>
        fR == <<Mul(rhoR, vxR),
                Add(Mul(Mul(rhoR, vxR), vxR), pR),
                Mul(Mul(rhoR, vxR), vyR),
                Mul(vxR, Add(eR, pR))>>
    IN  [k \in 1..4 |-> Sub(Mul(Half, Add(fR[k], fL[k])), Mul(Mul(Half, a), delU[k]))]

\* one split flux of flux_stw: ev are the split eigenvalues of the side
stw_split(rho, vx, vy, c, ev) ==
    LET gam2q == Div(Half, gam)
        f0 == Mul(Mul(rho, gam2q),
                  Add(Add(Mul(Mul(I(2), gam1), ev[2]), ev[1]), ev[4]))
    IN  <<f0,
          Add(Mul(f0, vx), Mul(Mul(Mul(Sub(ev[4], ev[1]), rho), c), gam2q)),
          Mul(f0, vy),
          Add(Add(Mul(Mul(f0, Half), Add(Mul(vx, vx), Mul(vy, vy))),
                  Mul(Mul(Mul(Mul(Sub(ev[4], ev[1]), rho), c), vx), gam2q)),
              Mul(Mul(Mul(Mul(Mul(Add(ev[4], ev[1]), rho), c), c), gam2q), gam1q))>>

flux_stw(rhoL, rhoR, vxL, vxR, vyL, vyR, pL, pR) ==
    LET cL == sqrt(Div(Mul(gam, pL), rhoL))
        cR == sqrt(Div(Mul(gam, pR), rhoR))
        aL == <<Sub(vxL, cL), vxL, vxL, Add(vxL, cL)>>
        aR == <<Sub(vxR, cR), vxR, vxR, Add(vxR, cR)>>
        ap == [i \in 1..4 |-> fmax(aL[i], Zero)]
        am == [i \in 1..4 |-> fmin(aR[i], Zero)]
        fp == stw_split(rhoL, vxL, vyL, cL, ap)
        fm == stw_split(rhoR, vxR, vyR, cR, am)
    IN  [k \in 1..4 |-> Add(fp[k], fm[k])]

flux_cen(rhoL, rhoR, vxL, vxR, vyL, vyR, pL, pR) ==
    LET eL == Energy(rhoL, vxL, vyL, pL)
        eR == Energy(rhoR, vxR, vyR, pR)
        fL0 == Mul(rhoL, vxL)
        fL == <<fL0, Add(Mul(fL0, vxL), pL), Mul(fL0, vyL), Mul(vxL, Add(eL, pL))>>
        fR0 == Mul(rhoR, vxR)
        fR == <<fR0, Add(Mul(fR0, vxR), pR), Mul(fR0, vyR), Mul(vxR, Add(eR, pR))>>
    IN  [k \in 1..4 |-> Mul(Half, Add(fL[k], fR[k]))]

\* the split velocity and pressure <<uPlus, pPlus>> of flux_ausmd
ausmd_plus(vxL, pL, cm, alphaL) ==
    IF Lt(fabs(vxL), cm)
    THEN <<Add(Div(Mul(Mul(Mul(Q(1, 4), alphaL), Add(vxL, cm)), Add(vxL, cm)), cm),
               Mul(Mul(Half, Sub(One, alphaL)), Add(vxL, fabs(vxL)))),
           Mul(Div(Mul(Mul(Mul(Q(1, 4), pL), Add(vxL, cm)), Add(vxL, cm)), Mul(cm, cm)),
               Sub(I(2), Div(vxL, cm)))>>
    ELSE <<Mul(Half, Add(vxL, fabs(vxL))),
           Div(Mul(Mul(Half, pL), Add(vxL, fabs(vxL))), vxL)>>

\* the split velocity and pressure <<uMinus, pMinus>> of flux_ausmd
ausmd_minus(vxR, pR, cm, alphaR) ==
    IF Lt(fabs(vxR), cm)
    THEN <<Add(Div(Mul(Mul(Mul(Neg(Q(1, 4)), alphaR), Sub(vxR, cm)), Sub(vxR, cm)), cm),
               Mul(Mul(Half, Sub(One, alphaR)), Sub(vxR, fabs(vxR)))),
           Mul(Div(Mul(Mul(Mul(Q(1, 4), pR), Sub(vxR, cm)), Sub(vxR, cm)), Mul(cm, cm)),
               Add(I(2), Div(vxR, cm)))>>
    ELSE <<Mul(Half, Sub(vxR, fabs(vxR))),
           Div(Mul(Mul(Half, pR), Sub(vxR, fabs(vxR))), vxR)>>

\* the upwinded flux of flux_ausmd for the mass flux rhoU and the pressure
\* sum pSum
ausmd_upwind(vxL, vxR, vyL, vyR, HL, HR, rhoU, pSum) ==
    <<rhoU,
      Add(Mul(Half, Sub(Mul(rhoU, Add(vxR, vxL)), Mul(fabs(rhoU), Sub(vxR, vxL)))), pSum),
      Mul(Half, Sub(Mul(rhoU, Add(vyR, vyL)), Mul(fabs(rhoU), Sub(vyR, vyL)))),
      Mul(Half, Sub(Mul(rhoU, Add(HR, HL)), Mul(fabs(rhoU), Sub(HR, HL))))>>

\* flux_ausmd for the splittings plus = <<uPlus, pPlus>>, minus = <<uMinus, pMinus>>
ausmd_flux(rhoL, rhoR, vxL, vxR, vyL, vyR, HL, HR, plus, minus) ==
    ausmd_upwind(vxL, vxR, vyL, vyR, HL, HR,
                 Add(Mul(plus[1], rhoL), Mul(minus[1], rhoR)), Add(plus[2], minus[2]))

\* the weights alphaL and alphaR of flux_ausmd and flux_ausmdv
ausmd_alphaL(rhoL, rhoR, pL, pR) ==
    Div(Div(Mul(I(2), pL), rhoL), Add(Div(pL, rhoL), Div(pR, rhoR)))

ausmd_alphaR(rhoL, rhoR, pL, pR) ==
    Div(Div(Mul(I(2), pR), rhoR), Add(Div(pL, rhoL), Div(pR, rhoR)))

\* flux_ausmd for the common sound speed cm
ausmd_split(rhoL, rhoR, vxL, vxR, vyL, vyR, pL, pR, cm) ==
    ausmd_flux(rhoL, rhoR, vxL, vxR, vyL, vyR,
               Enthalpy(rhoL, vxL, vyL, pL), Enthalpy(rhoR, vxR, vyR, pR),
               ausmd_plus(vxL, pL, cm, ausmd_alphaL(rhoL, rhoR, pL, pR)),
               ausmd_minus(vxR, pR, cm, ausmd_alphaR(rhoL, rhoR, pL, pR)))

flux_ausmd(rhoL, rhoR, vxL, vxR, vyL, vyR, pL, pR) ==
    ausmd_split(rhoL, rhoR, vxL, vxR, vyL, vyR, pL, pR,
                fmax(Sound(rhoL, pL), Sound(rhoR, pR)))

(***************************************************************************)
(* flux_ausmd in rounded arithmetic: every operation of lines 572..610 in  *)
(* the order C evaluates it, each rounded to a double                      *)
(***************************************************************************)
\* the constants gam and gam1q as doubles
gamD == Fl(gam)

gam1qD == FlDiv(One, FlSub(gamD, One))

\* line 572: the energy of a state
ausmd_energyD(rho, vx, vy, p) ==
    FlAdd(FlMul(gam1qD, p),
          FlMul(FlMul(Half, rho), FlAdd(FlMul(vx, vx), FlMul(vy, vy))))

\* line 579: the maximum speed of sound
ausmd_cmD(rhoL, rhoR, pL, pR) ==
    fmax(FlSqrt(FlDiv(FlMul(gamD, pL), rhoL)), FlSqrt(FlDiv(FlMul(gamD, pR), rhoR)))

\* lines 581, 582: the weight of the side with pressure p and density rho
ausmd_alphaD(p, rho, pL, rhoL, pR, rhoR) ==
    FlDiv(FlDiv(FlMul(I(2), p), rho), FlAdd(FlDiv(pL, rhoL), FlDiv(pR, rhoR)))

\* a faulty splitting: the comparison of the guard is reversed
ausmd_plusDReversed(vxL, pL, cm, alphaL) ==
    IF Lt(cm, fabs(vxL))
    THEN <<FlAdd(FlDiv(FlMul(FlMul(FlMul(Q(1, 4), alphaL), FlAdd(vxL, cm)), FlAdd(vxL, cm)), cm),
                 FlMul(FlMul(Half, FlSub(One, alphaL)), FlAdd(vxL, fabs(vxL)))),
           FlMul(FlDiv(FlMul(FlMul(FlMul(Q(1, 4), pL), FlAdd(vxL, cm)), FlAdd(vxL, cm)),
                       FlMul(cm, cm)),
                 FlSub(I(2), FlDiv(vxL, cm)))>>
    ELSE <<FlMul(Half, FlAdd(vxL, fabs(vxL))),
           FlDiv(FlMul(FlMul(Half, pL), FlAdd(vxL, fabs(vxL))), vxL)>>

\* lines 585..592: <<uPlus, pPlus>>
ausmd_plusD(vxL, pL, cm, alphaL) ==
    IF Lt(fabs(vxL), cm)
    THEN <<FlAdd(FlDiv(FlMul(FlMul(FlMul(Q(1, 4), alphaL), FlAdd(vxL, cm)), FlAdd(vxL, cm)), cm),
                 FlMul(FlMul(Half, FlSub(One, alphaL)), FlAdd(vxL, fabs(vxL)))),
           FlMul(FlDiv(FlMul(FlMul(FlMul(Q(1, 4), pL), FlAdd(vxL, cm)), FlAdd(vxL, cm)),
                       FlMul(cm, cm)),
                 FlSub(I(2), FlDiv(vxL, cm)))>>
    ELSE <<FlMul(Half, FlAdd(vxL, fabs(vxL))),
           FlDiv(FlMul(FlMul(Half, pL), FlAdd(vxL, fabs(vxL))), vxL)>>

\* lines 595..602: <<uMinus, pMinus>>
ausmd_minusD(vxR, pR, cm, alphaR) ==
    IF Lt(fabs(vxR), cm)
    THEN <<FlAdd(FlDiv(FlMul(FlMul(FlMul(Neg(Q(1, 4)), alphaR), FlSub(vxR, cm)), FlSub(vxR, cm)), cm),
                 FlMul(FlMul(Half, FlSub(One, alphaR)), FlSub(vxR, fabs(vxR)))),
           FlMul(FlDiv(FlMul(FlMul(FlMul(Q(1, 4), pR), FlSub(vxR, cm)), FlSub(vxR, cm)),
                       FlMul(cm, cm)),
                 FlAdd(I(2), FlDiv(vxR, cm)))>>
    ELSE <<FlMul(Half, FlSub(vxR, fabs(vxR))),
           FlDiv(FlMul(FlMul(Half, pR), FlSub(vxR, fabs(vxR))), vxR)>>

\* lines 605..610: the flux for the mass flux rhoU and the pressure sum pSum
ausmd_upwindD(vxL, vxR, vyL, vyR, HL, HR, rhoU, pSum) ==
    <<rhoU,
      FlAdd(FlMul(Half, FlSub(FlMul(rhoU, FlAdd(vxR, vxL)),
                              FlMul(fabs(rhoU), FlSub(vxR, vxL)))), pSum),
      FlMul(Half, FlSub(FlMul(rhoU, FlAdd(vyR, vyL)), FlMul(fabs(rhoU), FlSub(vyR, vyL)))),
      FlMul(Half, FlSub(FlMul(rhoU, FlAdd(HR, HL)), FlMul(fabs(rhoU), FlSub(HR, HL))))>>

\* the divisors of lines 575..602: the densities, the sum under alphaL and
\* alphaR, and cm and cm * cm or the velocity on either side
ausmd_divisors(rhoL, rhoR, vxL, vxR, pL, pR, cm) ==
    {rhoL, rhoR, FlAdd(FlDiv(pL, rhoL), FlDiv(pR, rhoR))}
        \cup (IF Lt(fabs(vxL), cm) THEN {cm, FlMul(cm, cm)} ELSE {vxL})
        \cup (IF Lt(fabs(vxR), cm) THEN {cm, FlMul(cm, cm)} ELSE {vxR})

\* what a call of flux_ausmd computes once cm, the splittings and the
\* enthalpies are known
ausmd_resultD(rhoL, rhoR, vxL, vxR, vyL, vyR, pL, pR, cm, plus, minus, HL, HR) ==
    [cm |-> cm, plus |-> plus, minus |-> minus,
     divisors |-> ausmd_divisors(rhoL, rhoR, vxL, vxR, pL, pR, cm),
     fluxLoc |-> ausmd_upwindD(vxL, vxR, vyL, vyR, HL, HR,
                               FlAdd(FlMul(plus[1], rhoL), FlMul(minus[1], rhoR)),
                               FlAdd(plus[2], minus[2]))]

ausmd_splitD(rhoL, rhoR, vxL, vxR, vyL, vyR, pL, pR, cm) ==
    ausmd_resultD(rhoL, rhoR, vxL, vxR, vyL, vyR, pL, pR, cm,
                  ausmd_plusD(vxL, pL, cm, ausmd_alphaD(pL, rhoL, pL, rhoL, pR, rhoR)),
                  ausmd_minusD(vxR, pR, cm, ausmd_alphaD(pR, rhoR, pL, rhoL, pR, rhoR)),
                  FlDiv(FlAdd(ausmd_energyD(rhoL, vxL, vyL, pL), pL), rhoL),
                  FlDiv(FlAdd(ausmd_energyD(rhoR, vxR, vyR, pR), pR), rhoR))

\* flux_ausmd on doubles
flux_ausmdD(rhoL, rhoR, vxL, vxR, vyL, vyR, pL, pR) ==
    ausmd_splitD(rhoL, rhoR, vxL, vxR, vyL, vyR, pL, pR, ausmd_cmD(rhoL, rhoR, pL, pR))

\* the split velocity and pressure <<uPlus, pPlus>> of flux_ausmdv
ausmdv_plus(vxL, pL, cm, alphaL) ==
    IF Lt(fabs(vxL), cm)
    THEN <<IF Gt(vxL, Zero)
           THEN Add(vxL, Mul(Mul(alphaL, Sub(vxL, cm)), Sub(vxL, cm)))
           ELSE Mul(Mul(alphaL, Add(vxL, cm)), Add(vxL, cm)),
           Mul(Div(Mul(Mul(Mul(Q(1, 4), pL), Add(vxL, cm)), Add(vxL, cm)), Mul(cm, cm)),
               Sub(I(2), Div(vxL, cm)))>>
    ELSE IF Gt(vxL, Zero) THEN <<vxL, pL>> ELSE <<Zero, Zero>>

\* the split velocity and pressure <<uMinus, pMinus>> of flux_ausmdv (the
\* branch for vxR > 0 reads vxL, as the source does)
ausmdv_minus(vxL, vxR, pR, cm, alphaR) ==
    IF Lt(fabs(vxR), cm)
    THEN <<IF Gt(vxR, Zero)
           THEN Mul(Mul(Neg(alphaR), Sub(vxL, cm)), Sub(vxL, cm))
           ELSE Sub(vxR, Mul(Mul(alphaR, Add(vxR, cm)), Add(vxR, cm))),
           Mul(Div(Mul(Mul(Mul(Q(1, 4), pR), Sub(vxR, cm)), Sub(vxR, cm)), Mul(cm, cm)),
               Add(I(2), Div(vxR, cm)))>>
    ELSE IF Gt(vxR, Zero) THEN <<Zero, Zero>> ELSE <<vxR, pR>>

\* the flux of flux_ausmdv before its entropy fix: uPlus, uMinus the split
\* velocities, pSum the pressure sum, rhoU the mass flux, s the switch
ausmdv_mix(rhoL, rhoR, vxL, vxR, vyL, vyR, HL, HR, uPlus, uMinus, pSum, rhoU, s) ==
    <<rhoU,
      Add(Add(Mul(Mul(Half, Add(One, s)),
                  Add(Mul(Mul(rhoL, vxL), uPlus), Mul(Mul(rhoR, vxR), uMinus))),
              Mul(Mul(Q(1, 4), Sub(One, s)),
                  Sub(Mul(rhoU, Add(vxR, vxL)), Mul(fabs(rhoU), Sub(vxR, vxL))))),
          pSum),
      Mul(Half, Sub(Mul(rhoU, Add(vyR, vyL)), Mul(fabs(rhoU), Sub(vyR, vyL)))),
      Mul(Half, Sub(Mul(rhoU, Add(HR, HL)), Mul(fabs(rhoU), Sub(HR, HL))))>>

\* the entropy fix of flux_ausmdv applied to the flux f
ausmdv_fix(rhoL, rhoR, vxL, vxR, vyL, vyR, HL, HR, cL, cR, f) ==
    LET tmpa == Lt(Sub(vxL, cL), Zero) /\ Gt(Sub(vxR, cR), Zero)
        tmpb == Lt(Add(vxL, cL), Zero) /\ Gt(Add(vxR, cR), Zero)
        tmpL == <<One, vxL, vyL, HL>>
        tmpR == <<One, vxR, vyR, HR>>
        fa == IF tmpa /\ ~tmpb
              THEN [k \in 1..4 |->
                       Sub(f[k], Mul(Mul(Q(1, 8), Sub(Sub(vxR, cR), Sub(vxL, cL))),
                                     Sub(Mul(rhoR, tmpR[k]), Mul(rhoL, tmpL[k]))))]
              ELSE f
    IN  IF ~tmpa /\ tmpb
        THEN [k \in 1..4 |->
                 Sub(fa[k], Mul(Mul(Q(1, 8), Sub(Add(vxR, cR), Add(vxL, cL))),
                                Sub(Mul(rhoR, tmpR[k]), Mul(rhoL, tmpL[k]))))]
        ELSE fa

\* flux_ausmdv for the splittings plus = <<uPlus, pPlus>>, minus = <<uMinus, pMinus>>
ausmdv_flux(rhoL, rhoR, vxL, vxR, vyL, vyR, pL, pR, HL, HR, cL, cR, plus, minus) ==
    ausmdv_fix(rhoL, rhoR, vxL, vxR, vyL, vyR, HL, HR, cL, cR,
               ausmdv_mix(rhoL, rhoR, vxL, vxR, vyL, vyR, HL, HR,
                          plus[1], minus[1], Add(plus[2], minus[2]),
                          Add(Mul(plus[1], rhoL), Mul(minus[1], rhoR)),
                          fmin(One, Div(Mul(I(10), fabs(Sub(pR, pL))), fmin(pR, pL)))))

\* flux_ausmdv for the sound speeds cL and cR
ausmdv_split(rhoL, rhoR, vxL, vxR, vyL, vyR, pL, pR, cL, cR) ==
    ausmdv_flux(rhoL, rhoR, vxL, vxR, vyL, vyR, pL, pR,
                Enthalpy(rhoL, vxL, vyL, pL), Enthalpy(rhoR, vxR, vyR, pR), cL, cR,
                ausmdv_plus(vxL, pL, fmax(cL, cR), ausmd_alphaL(rhoL, rhoR, pL, pR)),
                ausmdv_minus(vxL, vxR, pR, fmax(cL, cR), ausmd_alphaR(rhoL, rhoR, pL, pR)))

flux_ausmdv(rhoL, rhoR, vxL, vxR, vyL, vyR, pL, pR) ==
    ausmdv_split(rhoL, rhoR, vxL, vxR, vyL, vyR, pL, pR,
                 Sound(rhoL, pL), Sound(rhoR, pR))

\* the positive split flux of flux_vanleer (from the left state)
vanleer_plus(rhoL, vxL, vyL, pL, cL, HL) ==
    LET ML == Div(vxL, cL)
    IN  IF Gt(ML, One)
        THEN LET f0 == Mul(rhoL, vxL)
             IN  <<f0, Add(Mul(f0, vxL), pL), Mul(f0, vyL), Mul(f0, HL)>>
        ELSE IF Lt(ML, One) /\ Gt(ML, Neg(One))
        THEN LET cx == Add(Mul(gam1, vxL), Mul(I(2), cL))
                 f0 == Mul(Mul(Mul(Mul(Q(1, 4), rhoL), cL), Add(ML, One)), Add(ML, One))
                 f1 == Div(Mul(f0, cx), gam)
                 f2 == Mul(f0, vyL)
             IN  <<f0, f1, f2,
                   Mul(Half, Add(Div(Mul(Mul(f1, cx), gam), Sub(Mul(gam, gam), One)),
                                 Mul(f2, vyL)))>>
        ELSE ZeroVec

\* the negative split flux of flux_vanleer (from the right state)
vanleer_minus(rhoR, vxR, vyR, pR, cR, HR) ==
    LET MR == Div(vxR, cR)
    IN  IF Lt(MR, Neg(One))
        THEN LET f0 == Mul(rhoR, vxR)
             IN  <<f0, Add(Mul(f0, vxR), pR), Mul(f0, vyR), Mul(f0, HR)>>
        ELSE IF Lt(MR, One) /\ Gt(MR, Neg(One))
        THEN LET cx == Sub(Mul(gam1, vxR), Mul(I(2), cR))
                 f0 == Mul(Mul(Mul(Mul(Neg(Q(1, 4)), rhoR), cR), Sub(One, MR)), Sub(One, MR))
                 f1 == Div(Mul(f0, cx), gam)
                 f2 == Mul(f0, vyR)
             IN  <<f0, f1, f2,
                   Mul(Half, Add(Div(Mul(Mul(f1, cx), gam), Sub(Mul(gam, gam), One)),
                                 Mul(f2, vyR)))>>
        ELSE ZeroVec

flux_vanleer(rhoL, rhoR, vxL, vxR, vyL, vyR, pL, pR) ==
    LET cL == sqrt(Div(Mul(gam, pL), rhoL))
        cR == sqrt(Div(Mul(gam, pR), rhoR))
        eL == Energy(rhoL, vxL, vyL, pL)
        eR == Energy(rhoR, vxR, vyR, pR)
        HL == Div(Add(eL, pL), rhoL)
        HR == Div(Add(eR, pR), rhoR)
        fp == vanleer_plus(rhoL, vxL, vyL, pL, cL, HL)
        fm == vanleer_minus(rhoR, vxR, vyR, pR, cR, HR)
    IN  [k \in 1..4 |-> Add(fp[k], fm[k])]

\* the flux selection: fluxLoc is the caller's vector, left as it is when
\* iFlux is none of the switch's cases
convectiveFlux(rhoL, rhoR, vxL, vxR, vyL, vyR, pL, pR, fluxLoc) ==
    CASE iFlux = "GOD" -> flux_god(rhoL, rhoR, vxL, vxR, vyL, vyR, pL, pR)
      [] iFlux = "ROE" -> flux_roe(rhoL, rhoR, vxL, vxR, vyL, vyR, pL, pR)
      [] iFlux = "HLL" -> flux_hll(rhoL, rhoR, vxL, vxR, vyL, vyR, pL, pR)
      [] iFlux = "HLLE" -> flux_hlle(rhoL, rhoR, vxL, vxR, vyL, vyR, pL, pR)
      [] iFlux = "HLLC" -> flux_hllc(rhoL, rhoR, vxL, vxR, vyL, vyR, pL, pR)
      [] iFlux = "LXF" -> flux_lxf(rhoL, rhoR, vxL, vxR, vyL, vyR, pL, pR)
      [] iFlux = "STW" -> flux_stw(rhoL, rhoR, vxL, vxR, vyL, vyR, pL, pR)
      [] iFlux = "CEN" -> flux_cen(rhoL, rhoR, vxL, vxR, vyL, vyR, pL, pR)
      [] iFlux = "AUSMD" -> flux_ausmd(rhoL, rhoR, vxL, vxR, vyL, vyR, pL, pR)
      [] iFlux = "AUSMDV" -> flux_ausmdv(rhoL, rhoR, vxL, vxR, vyL, vyR, pL, pR)
      [] iFlux = "VANLEER" -> flux_vanleer(rhoL, rhoR, vxL, vxR, vyL, vyR, pL, pR)
      [] OTHER -> fluxLoc

\* the diffusive flux <<f, g>>: f and g are the caller's vectors, whose
\* density component is not written
\* a faulty diffusive flux: a density component is written as well
diffusionFluxMass(state, gradX, gradY, f, g) ==
    <<[f EXCEPT ![RHO] = Mul(gradX[RHO], mu),
                ![MX] = Mul(Sub(Mul(Q(4, 3), gradX[MX]), Mul(Q(2, 3), gradY[MY])), mu),
                ![MY] = Mul(Add(gradY[MX], gradX[MY]), mu)],
      [g EXCEPT ![RHO] = Mul(gradY[RHO], mu),
                ![MX] = Mul(Add(gradY[MX], gradX[MY]), mu),
                ![MY] = Mul(Sub(Mul(Q(4, 3), gradY[MY]), Mul(Q(2, 3), gradX[MX])), mu)]>>

diffusionFlux(state, gradX, gradY, f, g) ==
    LET heat == Div(gam, Mul(Mul(Mul(gam1, Pr), state[RHO]), state[RHO]))
        fMX == Mul(Sub(Mul(Q(4, 3), gradX[MX]), Mul(Q(2, 3), gradY[MY])), mu)
        fMY == Mul(Add(gradY[MX], gradX[MY]), mu)
        fE == Mul(Add(Add(Sub(Mul(Mul(Q(4, 3), state[MX]), gradX[MX]),
                              Mul(Mul(Q(2, 3), state[MX]), gradY[MY])),
                          Mul(Add(gradX[MY], gradY[MX]), state[MY])),
                      Mul(heat, Sub(Mul(state[RHO], gradX[P]), Mul(state[P], gradX[RHO])))),
                  mu)
        gMX == Mul(Add(gradY[MX], gradX[MY]), mu)
        gMY == Mul(Sub(Mul(Q(4, 3), gradY[MY]), Mul(Q(2, 3), gradX[MX])), mu)
        gE == Mul(Add(Add(Sub(Mul(Mul(Q(4, 3), state[MY]), gradY[MY]),
                              Mul(Mul(Q(2, 3), state[MY]), gradX[MX])),
                          Mul(Add(gradY[MX], gradX[MY]), state[MX])),
                      Mul(heat, Sub(Mul(state[RHO], gradY[P]), Mul(state[P], gradY[RHO])))),
                  mu)
    IN  <<[f EXCEPT ![MX] = fMX, ![MY] = fMY, ![E] = fE],
          [g EXCEPT ![MX] = gMX, ![MY] = gMY, ![E] = gE]>>

(***************************************************************************)
(* the mesh                                                                *)
(***************************************************************************)
VARIABLES
    nSides,         \* the number of entries of side[]
    side,           \* side[i]: the Side record of loop index i (1..nSides)
    connection,     \* connection[s]: the paired Side record of record s
    sideElem,       \* sideElem[s]: the Element owning Side record s
    pVar,           \* pVar[s]: the primitive state reconstructed at Side s
    n,              \* n[s]: the outward unit normal of Side s
    len,            \* len[s]: the face length of Side s
    baryBaryVec,    \* baryBaryVec[s]: vector between the two cell centres
    baryBaryDist,   \* baryBaryDist[s]: its length
    flux,           \* flux[s]: the flux accumulator of Side s
    elemPVar,       \* elemPVar[e]: the cell-centre primitive state
    u_x,            \* u_x[e]: the x-gradient of the primitive state
    u_y             \* u_y[e]: the y-gradient of the primitive state

\* the largest number of faces of a mesh of the model
MaxSides == 2

\* the Side records of a mesh of k faces: record i is side[i], record i + k
\* its connection
Records(k) == 1..(2 * k)

\* the cells of a mesh of k faces: face i lies between cells i and i + 1
Cells(k) == 1..(k + 1)

Pick(table, i) == table[((i - 1) % Len(table)) + 1]

NormalTable == <<<<Q(3, 5), Q(4, 5)>>, <<I(1), I(0)>>, <<Q(-4, 5), Q(3, 5)>>, <<I(0), I(-1)>>>>

LenTable == <<I(2), Q(1, 2), I(3), I(1)>>

VelTable == <<<<I(1), I(2)>>, <<I(5), I(0)>>, <<I(-2), I(1)>>, <<I(0), I(-3)>>>>

GradTable == <<Vec4(I(1), I(0), I(2), I(-1)), Vec4(I(0), I(3), I(-1), I(2)),
               Vec4(I(-2), I(1), I(1), I(0)), Vec4(I(1), I(-1), I(0), I(3))>>

BaryTable == <<<<<<I(3), I(4)>>, I(5)>>, <<<<I(1), I(0)>>, I(1)>>, <<<<I(0), I(-2)>>, I(2)>>>>

\* the pressure at which a gas of density rho has sound speed c
PressureOf(rho, c) == Div(Mul(Mul(rho, c), c), gam)

\* the state reconstructed at Side record s of a mesh of k faces.  Variant 1:
\* the two sides of a face differ in density and pressure; variant 2: they
\* differ in velocity
SideState(v, k, s) ==
    LET i == IF s <= k THEN s ELSE s - k
        left == s <= k
        vel == Pick(VelTable, i + v)
        rho == IF v = 1 THEN (IF left = (i % 2 = 1) THEN I(1) ELSE I(4)) ELSE I(1)
        vx == IF v = 2 /\ ~left THEN Add(vel[1], I(3)) ELSE vel[1]
        vy == IF v = 2 /\ ~left THEN Add(vel[2], I(4)) ELSE vel[2]
    IN  Vec4(rho, vx, vy, PressureOf(rho, One))

CellState(v, e) ==
    LET vel == Pick(VelTable, e + v + 1)
        rho == IF e % 2 = 1 THEN I(1) ELSE I(4)
    IN  Vec4(rho, vel[1], vel[2], PressureOf(rho, One))

MeshVariants == {1, 2}

\* an accumulator content left by an earlier stage
StaleFlux(s) == Vec4(I(s), I(-s), I(7), I(s + 1))

meshVars == <<nSides, side, connection, sideElem, pVar, n, len,
              baryBaryVec, baryBaryDist, elemPVar, u_x, u_y>>

(***************************************************************************)
(* fluxCalculation: the per-side loop                                      *)
(***************************************************************************)
VARIABLES
    phase,          \* "idle", or the function whose parallel loop runs
    pc,             \* pc[i]: the source line iteration i executes next
    loc,            \* loc[i]: the local vectors of iteration i
    touched,        \* touched[s]: the iterations that accessed flux[s]
    returned,       \* <<the accumulators as the last finished call left them>>
    entry           \* the accumulators as the running call found them

\* the calls of calcSource a behaviour of the model makes
MaxCalls == 2

\* forward rotation of a primitive state into the frame of normal nrm
RotateIn(nrm, pv) ==
    Vec4(pv[RHO],
         Add(Mul(nrm[X], pv[VX]), Mul(nrm[Y], pv[VY])),
         Add(Mul(Neg(nrm[Y]), pv[VX]), Mul(nrm[X], pv[VY])),
         pv[P])

\* a faulty back rotation: the forward rotation applied once more
RotateBackForward(nrm, fluxConv, k) ==
    CASE k = RHO -> fluxConv[RHO]
      [] k = MX -> Add(Mul(nrm[X], fluxConv[MX]), Mul(nrm[Y], fluxConv[MY]))
      [] k = MY -> Add(Mul(Neg(nrm[Y]), fluxConv[MX]), Mul(nrm[X], fluxConv[MY]))
      [] k = E -> fluxConv[E]

\* component k of the flux rotated back into the global frame
RotateBack(nrm, fluxConv, k) ==
    CASE k = RHO -> fluxConv[RHO]
      [] k = MX -> Sub(Mul(nrm[X], fluxConv[MX]), Mul(nrm[Y], fluxConv[MY]))
      [] k = MY -> Add(Mul(nrm[Y], fluxConv[MX]), Mul(nrm[X], fluxConv[MY]))
      [] k = E -> fluxConv[E]

\* mean state and corrected gradients <<stateMean, gradUx, gradUy>> at Side s
ViscousState(s) ==
    LET c == connection[s]
        eL == sideElem[s]
        eR == sideElem[c]
        stateMean == [k \in 1..4 |-> Mul(Half, Add(pVar[c][k], pVar[s][k]))]
        gradUxMean == [k \in 1..4 |-> Mul(Half, Add(u_x[eL][k], u_x[eR][k]))]
        gradUyMean == [k \in 1..4 |-> Mul(Half, Add(u_y[eL][k], u_y[eR][k]))]
        baryBary == <<Div(baryBaryVec[s][X], baryBaryDist[s]),
                      Div(baryBaryVec[s][Y], baryBaryDist[s])>>
        correction == [k \in 1..4 |->
            Sub(Add(Mul(gradUxMean[k], baryBary[X]), Mul(gradUyMean[k], baryBary[Y])),
                Div(Sub(elemPVar[eR][k], elemPVar[eL][k]), baryBaryDist[s]))]
        gradUx == [k \in 1..4 |-> Sub(gradUxMean[k], Mul(correction[k], baryBary[X]))]
        gradUy == [k \in 1..4 |-> Sub(gradUyMean[k], Mul(correction[k], baryBary[Y]))]
    IN  <<stateMean, gradUx, gradUy>>

\* the local vectors of an iteration for Side s once its fluxes are computed
SideLocals(s) ==
    LET pVarL == RotateIn(n[s], pVar[s])
        pVarR == RotateIn(n[s], pVar[connection[s]])
        fluxConv == convectiveFlux(pVarL[RHO], pVarR[RHO], pVarL[VX], pVarR[VX],
                                   pVarL[VY], pVarR[VY], pVarL[P], pVarR[P], ZeroVec)
        vs == ViscousState(s)
        diff == IF navierstokes
                THEN diffusionFlux(vs[1], vs[2], vs[3], ZeroVec, ZeroVec)
                ELSE <<ZeroVec, ZeroVec>>
    IN  [fluxConv |-> fluxConv, fluxDiffX |-> diff[1], fluxDiffY |-> diff[2]]

\* a faulty target: every iteration writes the connection of the first face
TargetShared(s, l) == IF l \in 993..996 THEN connection[side[1]] ELSE s

\* a faulty target: the scaling writes the accumulator of the next record
TargetNeighbour(s, l) ==
    IF l \in 987..990 THEN (s % (2 * nSides)) + 1
    ELSE IF l \in 993..996 THEN connection[s] ELSE s

\* the Side record whose accumulator the statement at source line l of the
\* loop body writes, executed for Side s
Target(s, l) == IF l \in 993..996 THEN connection[s] ELSE s

\* the component the statement at line l writes
Component(l) ==
    CASE l \in 973..976 -> l - 972
      [] l \in 980..983 -> l - 979
      [] l \in 987..990 -> l - 986
      [] l \in 993..996 -> l - 992

\* a faulty value: the connection receives the flux itself
ValueNoNegation(fl, s, lc, l) ==
    CASE l \in 973..976 -> RotateBack(n[s], lc.fluxConv, Component(l))
      [] l \in 980..983 ->
            Sub(fl[s][Component(l)],
                Add(Mul(lc.fluxDiffX[Component(l)], n[s][X]),
                    Mul(lc.fluxDiffY[Component(l)], n[s][Y])))
      [] l \in 987..990 -> Mul(fl[s][Component(l)], len[s])
      [] l \in 993..996 -> fl[s][Component(l)]

\* a faulty value: the rotated flux is added to the accumulator
ValueAccumulating(fl, s, lc, l) ==
    CASE l \in 973..976 ->
            Add(fl[s][Component(l)], RotateBack(n[s], lc.fluxConv, Component(l)))
      [] l \in 980..983 ->
            Sub(fl[s][Component(l)],
                Add(Mul(lc.fluxDiffX[Component(l)], n[s][X]),
                    Mul(lc.fluxDiffY[Component(l)], n[s][Y])))
      [] l \in 987..990 -> Mul(fl[s][Component(l)], len[s])
      [] l \in 993..996 -> Neg(fl[s][Component(l)])

\* a faulty value: the diffusive projection is rotated like the convective
\* flux before it is subtracted
ValueRotatedDiffusion(fl, s, lc, l) ==
    CASE l \in 973..976 -> RotateBack(n[s], lc.fluxConv, Component(l))
      [] l \in 980..983 ->
            Sub(fl[s][Component(l)],
                RotateBack(n[s],
                           [k \in 1..4 |-> Add(Mul(lc.fluxDiffX[k], n[s][X]),
                                               Mul(lc.fluxDiffY[k], n[s][Y]))],
                           Component(l)))
      [] l \in 987..990 -> Mul(fl[s][Component(l)], len[s])
      [] l \in 993..996 -> Neg(fl[s][Component(l)])

\* a faulty value: the scaling reads the accumulator of the first face
ValueCrossRead(fl, s, lc, l) ==
    CASE l \in 973..976 -> RotateBack(n[s], lc.fluxConv, Component(l))
      [] l \in 980..983 ->
            Sub(fl[s][Component(l)],
                Add(Mul(lc.fluxDiffX[Component(l)], n[s][X]),
                    Mul(lc.fluxDiffY[Component(l)], n[s][Y])))
      [] l \in 987..990 -> Mul(fl[side[1]][Component(l)], len[s])
      [] l \in 993..996 -> Neg(fl[s][Component(l)])

\* the value the statement at line l stores, executed for Side s with the
\* local vectors lc on the accumulators fl
Value(fl, s, lc, l) ==
    CASE l \in 973..976 -> RotateBack(n[s], lc.fluxConv, Component(l))
      [] l \in 980..983 ->
            Sub(fl[s][Component(l)],
                Add(Mul(lc.fluxDiffX[Component(l)], n[s][X]),
                    Mul(lc.fluxDiffY[Component(l)], n[s][Y])))
      [] l \in 987..990 -> Mul(fl[s][Component(l)], len[s])
      [] l \in 993..996 -> Neg(fl[s][Component(l)])

\* the accumulators after the statement at line l
Statement(fl, s, lc, l) ==
    [fl EXCEPT ![Target(s, l)][Component(l)] = Value(fl, s, lc, l)]

\* the Side records whose accumulator the statement at line l reads
Reads(s, l) == IF l \in 973..976 THEN {} ELSE {s}

\* a faulty control flow: the scaling of the energy component jumps back to
\* the scaling of the mass component
NextLineRepeat(l) ==
    CASE l = 976 -> IF navierstokes THEN 980 ELSE 987
      [] l = 983 -> 987
      [] l = 990 -> 987
      [] l = 996 -> 997
      [] OTHER -> l + 1

\* the line executed after line l (the lines 980..983 are compiled only in
\* viscous mode); 997 closes the loop body
NextLine(l) ==
    CASE l = 976 -> IF navierstokes THEN 980 ELSE 987
      [] l = 983 -> 987
      [] l = 990 -> 993
      [] l = 996 -> 997
      [] OTHER -> l + 1

\* the accumulators a statement reads or writes
Accessed(s, l) == Reads(s, l) \cup {Target(s, l)}

NoLocals == [fluxConv |-> ZeroVec, fluxDiffX |-> ZeroVec, fluxDiffY |-> ZeroVec]

loopVars == <<phase, pc, loc, touched, returned, entry>>

\* a call of fluxCalculation: the parallel loop forks one iteration per index
FluxCall ==
    /\ phase = "idle"
    /\ phase' = "flux"
    /\ pc' = [i \in 1..nSides |-> 886]
    /\ loc' = [i \in 1..nSides |-> NoLocals]
    /\ touched' = [s \in DOMAIN flux |-> {}]
    /\ entry' = flux
    /\ UNCHANGED <<returned, flux>>

\* lines 886..970 of iteration i: the states are read and rotated, the
\* convective (and diffusive) flux is computed into local vectors
ComputeFlux(i) ==
    /\ phase = "flux"
    /\ pc[i] = 886
    /\ loc' = [loc EXCEPT ![i] = SideLocals(side[i])]
    /\ pc' = [pc EXCEPT ![i] = 973]
    /\ UNCHANGED <<phase, touched, returned, entry, flux>>

\* one of the statements of lines 973..996 of iteration i
WriteFlux(i) ==
    /\ phase = "flux"
    /\ pc[i] \in 973..996
    /\ flux' = Statement(flux, side[i], loc[i], pc[i])
    /\ touched' = [s \in DOMAIN touched |->
                      IF s \in Accessed(side[i], pc[i]) THEN touched[s] \cup {i} ELSE touched[s]]
    /\ pc' = [pc EXCEPT ![i] = NextLine(pc[i])]
    /\ UNCHANGED <<phase, loc, returned, entry>>

\* the join of the parallel loop: fluxCalculation returns
FluxReturn ==
    /\ phase = "flux"
    /\ \A i \in 1..nSides : pc[i] = 997
    /\ phase' = "idle"
    /\ returned' = <<flux>>
    /\ UNCHANGED <<pc, loc, touched, entry, flux>>

(***************************************************************************)
(* the source term.  The value pi and the sines and cosines of evalSource  *)
(* are kept exact: a source value is a pair <<a, b>> of doubles standing   *)
(* for a * pi + b * pi^2, and the quadrature points and times of the model *)
(* make om * (x + y) - a * time a multiple of pi / 2.                      *)
(***************************************************************************)
VARIABLES
    nElems,         \* the number of entries of elem[]
    nGP,            \* nGP[e]: the number of quadrature points of cell e
    xGP,            \* xGP[e][g]: the g-th quadrature point of cell e
    wGP,            \* wGP[e][g]: its weight
    source,         \* source[e]: the source accumulator of cell e
    sourceFunc,     \* the configured source selector
    time,           \* the argument of the running call of calcSource
    spc,            \* spc[e]: the source line iteration e executes next
    sloc,           \* sloc[e]: the locals iGP and source of iteration e
    sreturned       \* <<time, accumulators>> of each finished call

\* the largest number of cells of a mesh whose source is integrated
MaxElems == 2

\* the largest number of quadrature points of a cell
MaxGP == 2

PZero == <<Zero, Zero>>

PAdd(a, b) == <<Add(a[1], b[1]), Add(a[2], b[2])>>

PScale(a, q) == <<Mul(a[1], q), Mul(a[2], q)>>

PZeroVec == <<PZero, PZero, PZero, PZero>>

\* theta modulo 2, in half turns (theta is a multiple of 1/2)
HalfTurns(theta) == CHOOSE m \in 0..3 : Sub(Mul(I(2), theta), I(m))[1] % 4 = 0 /\ Mul(I(2), theta)[2] = 1

\* cos(pi * theta) and sin(pi * theta)
CosPi(theta) == I(<<1, 0, -1, 0>>[HalfTurns(theta) + 1])

SinPi(theta) == I(<<0, 1, 0, -1>>[HalfTurns(theta) + 1])

\* evalSource: src is the caller's vector, left as it is when iSource is
\* none of the switch's cases
evalSource(iSource, x, t, src) ==
    IF iSource = 1
    THEN LET freq == One
             amp == Q(1, 10)
             om == freq                \* in units of pi
             a == I(2)                 \* in units of pi
             theta == Sub(Mul(om, Add(x[X], x[Y])), Mul(a, t))
             tmp1 == CosPi(theta)
             tmp2 == SinPi(Mul(I(2), theta))
             tmp3 == SinPi(theta)
             sRHO == Mul(Add(Neg(a), Mul(I(2), om)), tmp1)
             sVX == Add(Mul(Add(Neg(a), Mul(om, Sub(Mul(gam, I(3)), One))), tmp1),
                        Mul(Mul(Mul(amp, om), gam1), tmp2))
             sE == Add(Mul(Sub(Mul(Add(I(2), Mul(gam, I(6))), om), Mul(I(4), a)), tmp1),
                       Mul(Mul(amp, Sub(Mul(Mul(I(2), om), gam), a)), tmp2))
             sE2 == IF navierstokes
                    THEN Mul(Div(Mul(Mul(Mul(Mul(I(2), mu), gam), om), om), Pr), tmp3)
                    ELSE Zero
         IN  <<PScale(<<sRHO, Zero>>, amp),
               PScale(<<sVX, Zero>>, amp),
               PScale(<<sVX, Zero>>, amp),
               PScale(<<sE, sE2>>, amp)>>
    ELSE src

GPTable == <<<<I(0), I(0)>>, <<Q(1, 2), I(0)>>, <<Q(1, 2), Q(1, 2)>>, <<I(1), Q(1, 2)>>, <<I(1), I(1)>>>>

WeightTable == <<Q(1, 2), Q(1, 3), Q(1, 6), I(1)>>

Times == {Zero, Q(1, 4)}

SourceFuncs == {0, 1}

\* an accumulator content left by an earlier call
StaleSource(w, e) == IF w = 0 THEN PZeroVec ELSE <<<<I(e), Zero>>, PZero, <<Zero, I(3)>>, <<One, One>>>>

\* a faulty statement: the accumulator is not cleared before the sum
SourceStatementNoReset(src, e, lc, l) ==
    CASE l \in 79..82 ->
            [src EXCEPT ![e][l - 78] =
                PAdd(src[e][l - 78], PScale(lc.source[l - 78], wGP[e][lc.iGP + 1]))]
      [] OTHER -> src

\* a faulty statement: every iteration sums into the accumulator of the
\* first cell
SourceStatementFirstCell(src, e, lc, l) ==
    CASE l \in 71..74 -> [src EXCEPT ![e][l - 70] = PZero]
      [] l \in 79..82 ->
            [src EXCEPT ![1][l - 78] =
                PAdd(src[1][l - 78], PScale(lc.source[l - 78], wGP[e][lc.iGP + 1]))]
      [] OTHER -> src

\* the source accumulators src after the statement at source line l of the
\* loop body, executed for cell e with the locals lc
SourceStatement(src, e, lc, l) ==
    CASE l \in 71..74 -> [src EXCEPT ![e][l - 70] = PZero]
      [] l \in 79..82 ->
            [src EXCEPT ![e][l - 78] =
                PAdd(src[e][l - 78], PScale(lc.source[l - 78], wGP[e][lc.iGP + 1]))]
      [] OTHER -> src

\* the locals after the statement at line l: line 76 clears the local
\* vector and the loop starts at iGP = 0, line 78 calls evalSource, the
\* loop increment follows line 82
SourceLocals(e, lc, l) ==
    CASE l = 74 -> [iGP |-> 0, source |-> PZeroVec]
      [] l = 78 -> [lc EXCEPT !.source = evalSource(sourceFunc, xGP[e][lc.iGP + 1], time, lc.source)]
      [] l = 82 -> [lc EXCEPT !.iGP = lc.iGP + 1]
      [] OTHER -> lc

\* the line executed after line l with the locals lc2 that line leaves (the
\* loop test of line 77 is folded in); 84 closes the loop body
SourceNextLine(e, lc2, l) ==
    IF l = 74 \/ l = 82
    THEN (IF lc2.iGP < nGP[e] THEN 78 ELSE 84)
    ELSE l + 1

sourceVars == <<nElems, nGP, xGP, wGP, source, sourceFunc, time, spc, sloc, sreturned>>

\* a call of calcSource(t): the parallel loop forks one iteration per cell
SourceCall(t) ==
    /\ phase = "idle"
    /\ Len(sreturned) < MaxCalls
    /\ phase' = "source"
    /\ time' = t
    /\ spc' = [e \in 1..nElems |-> 71]
    /\ sloc' = [e \in 1..nElems |-> [iGP |-> 0, source |-> PZeroVec]]
    /\ UNCHANGED <<nElems, nGP, xGP, wGP, source, sourceFunc, sreturned>>

\* one statement of lines 71..82 of the iteration for cell e
SourceStep(e) ==
    /\ phase = "source"
    /\ spc[e] \in 71..82
    /\ source' = SourceStatement(source, e, sloc[e], spc[e])
    /\ sloc' = [sloc EXCEPT ![e] = SourceLocals(e, sloc[e], spc[e])]
    /\ spc' = [spc EXCEPT ![e] = SourceNextLine(e, SourceLocals(e, sloc[e], spc[e]), spc[e])]
    /\ UNCHANGED <<phase, nElems, nGP, xGP, wGP, sourceFunc, time, sreturned>>

\* the join of the parallel loop: calcSource returns
SourceReturn ==
    /\ phase = "source"
    /\ \A e \in 1..nElems : spc[e] = 84
    /\ phase' = "idle"
    /\ sreturned' = Append(sreturned, <<time, source>>)
    /\ UNCHANGED <<nElems, nGP, xGP, wGP, source, sourceFunc, time, spc, sloc>>

(***************************************************************************)
(* a flux kernel called on its own                                         *)
(***************************************************************************)
VARIABLES
    kL,             \* the left state <<rho, vx, vy, p>> of the call
    kR,             \* the right state of the call
    kflux,          \* the flux the call returned (<<>> before the call)
    massHllc,       \* <<mass flux flux_hllc returned>> (<<>> before its call)
    massGod,        \* <<mass flux flux_god returned>> (<<>> before its call)
    ausmdD          \* <<what flux_ausmd computed on doubles>> (<<>> before its call)

\* the largest normal velocity of a state handed to a kernel
MaxV == 2

Densities == {1, 4}

SoundSpeeds == {1, 2}

TangentialVs == {0, 4}

KernelStates ==
    {Vec4(I(r), I(vx), I(vy), PressureOf(I(r), I(c))) :
        r \in Densities, vx \in (-MaxV)..MaxV, vy \in TangentialVs, c \in SoundSpeeds}

StarStates == {<<I(2), I(1), I(3)>>, <<I(2), I(0), I(3)>>, <<I(2), I(-1), I(3)>>}

\* whether every square root the scheme takes of the states L and R is a
\* double of the model
Representable(scheme, L, R) ==
    /\ scheme \in Schemes \ {"CEN"} =>
          /\ IsSquare(Div(Mul(gam, L[P]), L[RHO]))
          /\ IsSquare(Div(Mul(gam, R[P]), R[RHO]))
    /\ scheme \in {"ROE", "HLL", "HLLE", "HLLC"} =>
          /\ IsSquare(L[RHO])
          /\ IsSquare(R[RHO])
    /\ scheme \in {"ROE", "HLL", "HLLC"} =>
          IsSquare(RoeMeanArg(L[RHO], R[RHO], L[VX], R[VX], L[VY], R[VY], L[P], R[P]))
    /\ scheme = "HLLE" =>
          IsSquare(hlle_dArg(L[RHO], R[RHO], L[VX], R[VX], L[VY], R[VY], L[P], R[P]))

kernelVars == <<kL, kR, kflux, massHllc, massGod, ausmdD>>

\* the call convectiveFlux(kL, kR, fluxLoc) with fluxLoc = {0.0}
KernelCall ==
    /\ kflux = <<>>
    /\ kflux' = convectiveFlux(kL[RHO], kR[RHO], kL[VX], kR[VX], kL[VY], kR[VY],
                               kL[P], kR[P], ZeroVec)
    /\ UNCHANGED <<kL, kR, massHllc, massGod, ausmdD>>

(***************************************************************************)
(* the specifications                                                      *)
(***************************************************************************)
configVars == <<iFlux, navierstokes, riemann>>

vars == <<configVars, meshVars, flux, loopVars, sourceVars, kernelVars>>

\* a scheme identifier that is none of the switch's cases
UnknownScheme == "NONE"

\* the mesh of k faces of variant v
MeshInit(v, k) ==
    /\ nSides = k
    /\ side = [i \in 1..k |-> i]
    /\ connection = [s \in Records(k) |-> IF s <= k THEN s + k ELSE s - k]
    /\ sideElem = [s \in Records(k) |-> IF s <= k THEN s ELSE s - k + 1]
    /\ pVar = [s \in Records(k) |-> SideState(v, k, s)]
    /\ n = [s \in Records(k) |-> Pick(NormalTable, s + v)]
    /\ len = [s \in Records(k) |-> Pick(LenTable, s + v)]
    /\ baryBaryVec = [s \in Records(k) |-> Pick(BaryTable, s + v)[1]]
    /\ baryBaryDist = [s \in Records(k) |-> Pick(BaryTable, s + v)[2]]
    /\ elemPVar = [e \in Cells(k) |-> CellState(v, e)]
    /\ u_x = [e \in Cells(k) |-> Pick(GradTable, e + v)]
    /\ u_y = [e \in Cells(k) |-> Pick(GradTable, e + v + 2)]

LoopIdle ==
    /\ phase = "idle"
    /\ pc = [i \in 1..nSides |-> 997]
    /\ loc = [i \in 1..nSides |-> NoLocals]
    /\ touched = [s \in Records(nSides) |-> {}]
    /\ returned = <<>>
    /\ entry = flux

SourceIdle ==
    /\ time = Zero
    /\ spc = [e \in 1..nElems |-> 84]
    /\ sloc = [e \in 1..nElems |-> [iGP |-> 0, source |-> PZeroVec]]
    /\ sreturned = <<>>

NoQuadrature ==
    /\ nGP = [e \in 1..nElems |-> 0]
    /\ xGP = [e \in 1..nElems |-> <<>>]
    /\ wGP = [e \in 1..nElems |-> <<>>]
    /\ source = [e \in 1..nElems |-> PZeroVec]
    /\ sourceFunc = 0

NoKernelCall ==
    /\ kL = <<>>
    /\ kR = <<>>
    /\ kflux = <<>>
    /\ massHllc = <<>>
    /\ massGod = <<>>
    /\ ausmdD = <<>>

\* every face of the mesh is one the configured scheme can be evaluated on
MeshRepresentable ==
    \A i \in 1..nSides :
        Representable(iFlux, RotateIn(n[side[i]], pVar[side[i]]),
                             RotateIn(n[side[i]], pVar[connection[side[i]]]))

\* fluxCalculation on a mesh
Init ==
    /\ iFlux \in Schemes \cup {UnknownScheme}
    /\ navierstokes \in BOOLEAN
    /\ riemann \in IF iFlux = "GOD" THEN StarStates ELSE {<<One, Zero, One>>}
    /\ \E k \in 1..MaxSides, v \in MeshVariants : MeshInit(v, k)
    /\ MeshRepresentable
    /\ flux = [s \in Records(nSides) |-> StaleFlux(s)]
    /\ LoopIdle
    /\ nElems = nSides + 1
    /\ NoQuadrature
    /\ SourceIdle
    /\ NoKernelCall

Next ==
    \/ FluxCall /\ UNCHANGED <<configVars, meshVars, sourceVars, kernelVars>>
    \/ \E i \in 1..nSides : ComputeFlux(i) /\ UNCHANGED <<configVars, meshVars, sourceVars, kernelVars>>
    \/ \E i \in 1..nSides : WriteFlux(i) /\ UNCHANGED <<configVars, meshVars, sourceVars, kernelVars>>
    \/ FluxReturn /\ UNCHANGED <<configVars, meshVars, sourceVars, kernelVars>>

Spec == Init /\ [][Next]_vars

\* the worker thread that runs iteration i executes its next statement: the
\* step of ComputeFlux(i) or WriteFlux(i), told by the line it leaves
Iteration(i) ==
    /\ i \in 1..nSides
    /\ phase = "flux"
    /\ pc[i] # 997
    /\ pc' = [pc EXCEPT ![i] = IF pc[i] = 886 THEN 973 ELSE NextLine(pc[i])]

\* the join of the parallel loop
Join == FluxReturn /\ UNCHANGED <<configVars, meshVars, sourceVars, kernelVars>>

\* fluxCalculation under fair scheduling: a worker thread that can step
\* eventually does, and so does the join
Fairness ==
    /\ \A i \in 1..MaxSides : WF_pc(Iteration(i))
    /\ WF_vars(Join)

SpecFair == Init /\ [][Next]_vars /\ Fairness


\* calcSource on a mesh of cells with quadrature points
InitSource ==
    /\ iFlux = "CEN"
    /\ navierstokes \in BOOLEAN
    /\ riemann = <<One, Zero, One>>
    /\ MeshInit(1, 0)
    /\ flux = [s \in Records(0) |-> ZeroVec]
    /\ LoopIdle
    /\ nElems \in 1..MaxElems
    /\ \E g \in 0..MaxGP :
          /\ nGP = [e \in 1..nElems |-> (g + e) % (MaxGP + 1)]
          /\ xGP = [e \in 1..nElems |-> [j \in 1..nGP[e] |-> Pick(GPTable, e + j + g)]]
          /\ wGP = [e \in 1..nElems |-> [j \in 1..nGP[e] |-> Pick(WeightTable, e + j + g)]]
    /\ \E w \in {0, 1} : source = [e \in 1..nElems |-> StaleSource(w, e)]
    /\ sourceFunc \in SourceFuncs
    /\ SourceIdle
    /\ NoKernelCall

NextSource ==
    \/ \E t \in Times : SourceCall(t) /\ UNCHANGED <<configVars, meshVars, flux, pc, loc, touched, returned, entry, kernelVars>>
    \/ \E e \in 1..nElems : SourceStep(e) /\ UNCHANGED <<configVars, meshVars, flux, loopVars, kernelVars>>
    \/ SourceReturn /\ UNCHANGED <<configVars, meshVars, flux, pc, loc, touched, returned, entry, kernelVars>>

SpecSource == InitSource /\ [][NextSource]_vars

\* one call of the configured kernel through convectiveFlux
InitKernel ==
    /\ iFlux \in Schemes
    /\ navierstokes = FALSE
    /\ kL \in KernelStates
    /\ kR \in KernelStates
    /\ Representable(iFlux, kL, kR)
    /\ riemann \in IF iFlux = "GOD" /\ kL # kR THEN StarStates ELSE {<<One, Zero, One>>}
    /\ kflux = <<>>
    /\ massHllc = <<>>
    /\ massGod = <<>>
    /\ ausmdD = <<>>
    /\ MeshInit(1, 0)
    /\ flux = [s \in Records(0) |-> ZeroVec]
    /\ LoopIdle
    /\ nElems = 0
    /\ NoQuadrature
    /\ SourceIdle

NextKernel == KernelCall /\ UNCHANGED <<configVars, meshVars, flux, loopVars, sourceVars>>

SpecKernel == InitKernel /\ [][NextKernel]_vars

\* the Sod shock tube, with density and pressure scaled by lam and a common
\* tangential velocity vy (the shock tube itself is lam = 1, vy = 0)
MaxScale == 6

MaxTangential == 2

SodLeft(lam, vy) == Vec4(I(lam), Zero, I(vy), I(lam))

SodRight(lam, vy) == Vec4(Q(lam, 8), Zero, I(vy), Q(lam, 10))

\* the state the exact Riemann solver returns at the face of the shock tube:
\* the star state left of the contact, rho* = 0.42632, vx* = 0.92745,
\* p* = 0.30313, density and pressure scaled by lam
SodStar(lam) == <<Mul(I(lam), Q(81, 190)), Q(115, 124), Mul(I(lam), Q(97, 320))>>

\* the call of flux_hllc on the states kL and kR; its mass flux is kept
HllcCall ==
    /\ massHllc = <<>>
    /\ massHllc' = <<flux_hllc(kL[RHO], kR[RHO], kL[VX], kR[VX], kL[VY], kR[VY],
                               kL[P], kR[P])[RHO]>>
    /\ UNCHANGED <<kL, kR, kflux, massGod, ausmdD>>

\* the call of flux_god on the states kL and kR; its mass flux is kept
GodCall ==
    /\ massGod = <<>>
    /\ massGod' = <<flux_god(kL[RHO], kR[RHO], kL[VX], kR[VX], kL[VY], kR[VY],
                             kL[P], kR[P])[RHO]>>
    /\ UNCHANGED <<kL, kR, kflux, massHllc, ausmdD>>

\* flux_hllc and flux_god called on a shock tube
InitSod ==
    /\ iFlux = "GOD"
    /\ navierstokes = FALSE
    /\ \E lam \in 1..MaxScale, vy \in (-MaxTangential)..MaxTangential :
          /\ kL = SodLeft(lam, vy)
          /\ kR = SodRight(lam, vy)
          /\ riemann = SodStar(lam)
    /\ kflux = <<>>
    /\ massHllc = <<>>
    /\ massGod = <<>>
    /\ ausmdD = <<>>
    /\ MeshInit(1, 0)
    /\ flux = [s \in Records(0) |-> ZeroVec]
    /\ LoopIdle
    /\ nElems = 0
    /\ NoQuadrature
    /\ SourceIdle

NextSod ==
    \/ HllcCall /\ UNCHANGED <<configVars, meshVars, flux, loopVars, sourceVars>>
    \/ GodCall /\ UNCHANGED <<configVars, meshVars, flux, loopVars, sourceVars>>

SpecSod == InitSod /\ [][NextSod]_vars

\* the doubles with a binary exponent in emin..emax
Doubles(emin, emax) ==
    {Scale(I(m), e - MantissaBits + 1) :
        m \in Pow2(MantissaBits - 1)..(Pow2(MantissaBits) - 1), e \in emin..emax}

\* the inputs of flux_ausmd on doubles: pressures around 1 and the smallest
\* normal double, densities 1 and 2^MaxUnderflow, the velocities 0 and 1 and
\* those between 2 and 4, of either sign
AusmdPressures == Doubles(0, 0) \cup {Scale(One, -MaxUnderflow)}

AusmdDensities == {One, Scale(One, MaxUnderflow)}

AusmdSpeeds == {One} \cup Doubles(1, 1)

AusmdVelocities == {Zero} \cup AusmdSpeeds \cup {Neg(v) : v \in AusmdSpeeds}

\* the call of flux_ausmd on the states kL and kR, on doubles
AusmdCall ==
    /\ ausmdD = <<>>
    /\ ausmdD' = <<flux_ausmdD(kL[RHO], kR[RHO], kL[VX], kR[VX], kL[VY], kR[VY],
                               kL[P], kR[P])>>
    /\ UNCHANGED <<kL, kR, kflux, massHllc, massGod>>

\* flux_ausmd called on doubles of positive density and pressure, the
\* pressure being the same on both sides
InitAusmd ==
    /\ iFlux = "AUSMD"
    /\ navierstokes = FALSE
    /\ riemann = <<One, Zero, One>>
    /\ kL \in {Vec4(r, v, One, p) :
                  r \in AusmdDensities, v \in AusmdVelocities, p \in AusmdPressures}
    /\ kR \in {Vec4(r, v, Zero, kL[P]) : r \in AusmdDensities, v \in AusmdVelocities}
    /\ kflux = <<>>
    /\ massHllc = <<>>
    /\ massGod = <<>>
    /\ ausmdD = <<>>
    /\ MeshInit(1, 0)
    /\ flux = [s \in Records(0) |-> ZeroVec]
    /\ LoopIdle
    /\ nElems = 0
    /\ NoQuadrature
    /\ SourceIdle

NextAusmd == AusmdCall /\ UNCHANGED <<configVars, meshVars, flux, loopVars, sourceVars>>

SpecAusmd == InitAusmd /\ [][NextAusmd]_vars


(***************************************************************************)
(* properties of fluxCalculation                                           *)
(***************************************************************************)
\* a call of fluxCalculation has returned and none is running
Returned == phase = "idle" /\ returned # <<>>

\* the meshes of the model keep the mesh invariant: connection is an
\* involution without fixed point and no record belongs to two faces
MeshInvariant ==
    /\ \A s \in Records(nSides) : connection[connection[s]] = s /\ connection[s] # s
    /\ \A i, j \in 1..nSides :
          i # j => {side[i], connection[side[i]]} \cap {side[j], connection[side[j]]} = {}

\* C1: after fluxCalculation returns, the accumulator of the connection of
\* every visited Side holds the negation of that Side's accumulator in each
\* of the four components, in Euler and in viscous mode
C1_Conservation ==
    (Returned /\ MeshInvariant) =>
        \A i \in 1..nSides : \A k \in 1..4 :
            flux[connection[side[i]]][k] = Neg(flux[side[i]][k])

\* a viscous call has returned with a flux that is not zero on two faces
C1_Witness ==
    /\ Returned
    /\ MeshInvariant
    /\ navierstokes
    /\ nSides = 2
    /\ \A i \in 1..nSides : \E k \in 1..4 : flux[side[i]][k] # Zero

\* C2: in the parallel loop no two iterations read or write the same flux
\* accumulator, whatever the interleaving of their statements
C2_NoSharedAccumulator ==
    MeshInvariant => \A r \in DOMAIN touched : Cardinality(touched[r]) <= 1

\* two iterations are both between their first and their last write
C2_Witness ==
    /\ phase = "flux"
    /\ MeshInvariant
    /\ nSides = 2
    /\ pc[1] \in 993..996
    /\ pc[2] \in 993..996
    /\ \A r \in DOMAIN touched : touched[r] # {}

\* C3: with a scheme identifier that is none of the known ones
\* fluxCalculation never returns normally with the caller's default flux
\* vector stored into the accumulators
C3_UnknownSchemeFailsFast == iFlux \notin Schemes => ~Returned


\* the rotation of the velocity of a primitive state pv into the frame of
\* the normal (nx, ny), written out by hand
ManualRotate(nx, ny, pv) ==
    <<pv[RHO],
      Add(Mul(nx, pv[VX]), Mul(ny, pv[VY])),
      Sub(Mul(nx, pv[VY]), Mul(ny, pv[VX])),
      pv[P]>>

\* the kernel called under the identity normal on two states rotated by hand
IdentityCall(L, R) ==
    LET l == RotateIn(<<One, Zero>>, L)
        r == RotateIn(<<One, Zero>>, R)
    IN  convectiveFlux(l[RHO], r[RHO], l[VX], r[VX], l[VY], r[VY], l[P], r[P], ZeroVec)

\* iteration i has stored the rotated convective flux and nothing else yet
Rotated(i) == phase = "flux" /\ pc[i] = NextLine(976)

\* C6: for every face normal of unit length the back rotation of the flux is
\* the inverse of the forward rotation of the velocities: the momentum flux
\* stored for a Side is the one obtained by rotating both states by hand,
\* calling the kernel under the normal (1, 0) and rotating its result back;
\* density, pressure, mass flux and energy flux pass both rotations unchanged
C6_RotationRoundTrip ==
    \A i \in 1..nSides :
        (Rotated(i) /\ Add(Sq(n[side[i]][X]), Sq(n[side[i]][Y])) = One) =>
            LET s == side[i]
                nx == n[s][X]
                ny == n[s][Y]
                F == IdentityCall(ManualRotate(nx, ny, pVar[s]),
                                  ManualRotate(nx, ny, pVar[connection[s]]))
                fwd == RotateIn(n[s], pVar[s])
            IN  /\ flux[s][MX] = Sub(Mul(nx, F[MX]), Mul(ny, F[MY]))
                /\ flux[s][MY] = Add(Mul(ny, F[MX]), Mul(nx, F[MY]))
                /\ flux[s][RHO] = F[RHO]
                /\ flux[s][E] = F[E]
                /\ fwd[RHO] = pVar[s][RHO]
                /\ fwd[P] = pVar[s][P]
                /\ RotateBack(n[s], fwd, MX) = pVar[s][VX]
                /\ RotateBack(n[s], fwd, MY) = pVar[s][VY]

\* a face whose normal is oblique has stored a rotated momentum flux with
\* two components that are not zero
C6_Witness ==
    \E i \in 1..nSides :
        /\ Rotated(i)
        /\ n[side[i]][X] # Zero
        /\ n[side[i]][Y] # Zero
        /\ loc[i].fluxConv[MX] # Zero
        /\ loc[i].fluxConv[MY] # Zero
        /\ flux[side[i]][MX] # loc[i].fluxConv[MX]

\* the flux of the face of Side s in terms of the states, gradients, normal
\* and length of the face alone
FaceFlux(s) ==
    LET lc == SideLocals(s)
    IN  [k \in 1..4 |->
            Mul(IF navierstokes
                THEN Sub(RotateBack(n[s], lc.fluxConv, k),
                         Add(Mul(lc.fluxDiffX[k], n[s][X]), Mul(lc.fluxDiffY[k], n[s][Y])))
                ELSE RotateBack(n[s], lc.fluxConv, k),
                len[s])]

\* every iteration of the running call has finished
Finished == phase = "flux" /\ \A i \in 1..nSides : pc[i] = 997

\* C7: fluxCalculation overwrites the accumulators: when a call ends they
\* depend on the states, gradients, normals and lengths only and not on what
\* they held before, and a call that follows another with unchanged inputs
\* leaves what that one left
C7_Overwrite ==
    Finished =>
        /\ \A i \in 1..nSides :
              /\ flux[side[i]] = FaceFlux(side[i])
              /\ flux[connection[side[i]]] = VecNeg(FaceFlux(side[i]))
        /\ returned # <<>> => flux = returned[1]

\* a viscous call that follows another ends; the first one had found
\* accumulators that held something else than it left
C7_Witness ==
    /\ Finished
    /\ returned # <<>>
    /\ navierstokes
    /\ nSides = 2
    /\ \A i \in 1..nSides : flux[side[i]] # ZeroVec
    /\ entry = returned[1]
    /\ \E r \in Records(nSides) : StaleFlux(r) # returned[1][r]

\* C8: a step of the loop iteration for a Side changes no shared state but
\* the accumulator of that Side and the accumulator of its connection:
\* states, gradients, normals, lengths, connections and every other
\* accumulator stay as they are
C8_Frame ==
    [][/\ UNCHANGED meshVars
       /\ \A r \in DOMAIN flux :
             flux'[r] # flux[r] =>
                \E i \in 1..nSides :
                    /\ pc'[i] # pc[i]
                    /\ r \in {side[i], connection[side[i]]}]_vars

\* an iteration has finished and changed both accumulators of its face,
\* next to a face it did not write
C8_Witness ==
    /\ phase = "flux"
    /\ nSides = 2
    /\ pc[1] = 997
    /\ pc[2] = 886
    /\ flux[side[1]] # entry[side[1]]
    /\ flux[connection[side[1]]] # entry[connection[side[1]]]
    /\ flux[side[2]] = entry[side[2]]

\* the accumulators after the lines l..996 of the body for Side s, run
\* without interruption on the accumulators fl
RECURSIVE RunBody(_, _, _, _)
RunBody(fl, s, lc, l) ==
    IF l = 997 THEN fl ELSE RunBody(Statement(fl, s, lc, l), s, lc, NextLine(l))

\* the accumulators after the iterations i..nSides, run one after the other
RECURSIVE SequentialLoop(_, _)
SequentialLoop(fl, i) ==
    IF i > nSides THEN fl
    ELSE SequentialLoop(RunBody(fl, side[i], SideLocals(side[i]), 973), i + 1)

\* C9: whatever the order and the interleaving of the statements of the
\* iterations, the accumulators after fluxCalculation are those the
\* sequential loop leaves
C9_OrderIndependent ==
    (Returned /\ MeshInvariant) => flux = SequentialLoop(entry, 1)

\* a viscous call on two faces has returned
C9_Witness ==
    /\ Returned
    /\ MeshInvariant
    /\ navierstokes
    /\ nSides = 2
    /\ flux # entry

(***************************************************************************)
(* properties of the flux kernels                                          *)
(***************************************************************************)
\* the physical flux of the primitive state s
ExactFlux(s) ==
    LET e == Add(Div(s[P], Sub(gam, One)),
                 Mul(Mul(Half, s[RHO]), Add(Mul(s[VX], s[VX]), Mul(s[VY], s[VY]))))
    IN  <<Mul(s[RHO], s[VX]),
          Add(Mul(Mul(s[RHO], s[VX]), s[VX]), s[P]),
          Mul(Mul(s[RHO], s[VX]), s[VY]),
          Mul(s[VX], Add(e, s[P]))>>

\* C4: every kernel called with the left state equal to the right state
\* returns the physical flux of that state, be the flow subsonic, exactly
\* sonic or supersonic
C4_Consistency == (kflux # <<>> /\ kL = kR) => kflux = ExactFlux(kL)

\* the mirror image of the primitive state s: both velocities negated
MirrorState(s) == <<s[RHO], Neg(s[VX]), Neg(s[VY]), s[P]>>

\* the kernel called with the states swapped and mirrored
MirrorCall ==
    LET l == MirrorState(kR)
        r == MirrorState(kL)
    IN  convectiveFlux(l[RHO], r[RHO], l[VX], r[VX], l[VY], r[VY], l[P], r[P], ZeroVec)

\* C5: for every kernel, the call with the left and right states swapped and
\* the velocities negated returns the negated mass flux of the original call
\* (the part of the symmetry that the mass component states; the Godunov
\* kernel is taken on equal states, where the external solver is known)
C5_MirrorMassFlux ==
    (kflux # <<>> /\ (iFlux # "GOD" \/ kL = kR)) => MirrorCall[RHO] = Neg(kflux[RHO])

(***************************************************************************)
(* properties of calcSource                                                *)
(***************************************************************************)
\* C10: two calls of calcSource with the same time, selector, quadrature
\* points and weights leave every cell's source vector with the same values,
\* whatever the accumulators held before
C10_Idempotent ==
    \A a, b \in 1..Len(sreturned) :
        sreturned[a][1] = sreturned[b][1] => sreturned[a][2] = sreturned[b][2]

\* two calls at the same time have returned a source that is not zero, the
\* first on accumulators a former stage had filled
C10_Witness ==
    /\ Len(sreturned) = 2
    /\ sreturned[1][1] = sreturned[2][1]
    /\ sourceFunc = 1
    /\ nElems = MaxElems
    /\ \E e \in 1..nElems : /\ sreturned[2][2][e] # PZeroVec
                            /\ sreturned[2][2][e] # StaleSource(1, e)

(***************************************************************************)
(* termination of fluxCalculation                                          *)
(***************************************************************************)
\* an iteration that reached the end of the body stays there as long as the
\* call runs, and an iteration moves forward through the body only
OncePerIndex ==
    [][phase = "flux" /\ phase' = "flux" =>
          \A i \in 1..nSides : pc'[i] >= pc[i] /\ (pc[i] = 997 => pc'[i] = 997)]_vars

\* C11: under fair scheduling of the worker threads every call of
\* fluxCalculation ends: each index runs its body once, from its first line
\* to its last, none is skipped or left, and the loop joins and returns
C11_Completion ==
    /\ OncePerIndex
    /\ [][phase = "idle" /\ phase' = "flux" => \A i \in 1..nSides : pc'[i] = 886]_vars
    /\ [][phase = "flux" /\ phase' = "idle" => \A i \in 1..nSides : pc[i] = 997]_vars
    /\ (phase = "flux") ~> (phase = "idle")

\* a call on the largest mesh has returned after every iteration computed
\* and stored a flux
C11_Witness ==
    /\ Returned
    /\ nSides = MaxSides
    /\ \A i \in 1..nSides : pc[i] = 997 /\ loc[i] # NoLocals

(***************************************************************************)
(* flux_hllc against flux_god on the Sod shock tube                        *)
(***************************************************************************)
\* the digits of a / b after the point, by long division: r is the rest
RECURSIVE Decimals(_, _, _)
Decimals(r, d, k) ==
    IF k = 0 THEN 0 ELSE ((10 * r) \div d) * Pow10(k - 1) + Decimals((10 * r) % d, d, k - 1)

\* the double a >= 0 in millionths, rounded down
Millionths(a) == (a[1] \div a[2]) * Pow10(6) + Decimals(a[1] % a[2], a[2], 6)

\* the distance of the two mass fluxes, and the Godunov mass flux, in
\* millionths
SodDistance == Abs(Millionths(massHllc[1]) - Millionths(massGod[1]))

SodReference == Millionths(massGod[1])

SodCompared == massHllc # <<>> /\ massGod # <<>>

\* C12 as stated: on the Sod shock tube the mass flux of flux_hllc and the
\* one of flux_god agree to within 1e-3 relative error
C12_SodAgreement == SodCompared => 1000 * SodDistance <= SodReference

\* C12: on the Sod shock tube the mass flux of flux_hllc and the one of
\* flux_god agree to within 10 per cent, and not to within 8 per cent
C12_SodWithinTenth ==
    SodCompared => /\ 100 * SodDistance <= 10 * SodReference
                   /\ 100 * SodDistance > 8 * SodReference

\* both kernels have been called on the shock tube itself
C12_Witness ==
    /\ SodCompared
    /\ kL = Vec4(One, Zero, Zero, One)
    /\ kR = Vec4(Q(1, 8), Zero, Zero, Q(1, 10))
    /\ massHllc[1] # massGod[1]


(***************************************************************************)
(* the order of back rotation and diffusive subtraction                    *)
(***************************************************************************)
\* the projection of the diffusive flux of iteration i on the normal
Projection(i) ==
    [k \in 1..4 |-> Add(Mul(loc[i].fluxDiffX[k], n[side[i]][X]),
                        Mul(loc[i].fluxDiffY[k], n[side[i]][Y]))]

\* the convective flux of iteration i less the projection, in the face frame
Combined(i) == [k \in 1..4 |-> Sub(loc[i].fluxConv[k], Projection(i)[k])]

C14_NoMassDiffusion ==
    (navierstokes /\ phase = "flux") =>
        \A i \in 1..nSides :
            LET vs == ViscousState(side[i])
                out == diffusionFlux(vs[1], vs[2], vs[3], StaleFlux(1), StaleFlux(2))
            IN  /\ out[1][RHO] = StaleFlux(1)[RHO]
                /\ out[2][RHO] = StaleFlux(2)[RHO]
                /\ pc[i] >= 973 => /\ loc[i].fluxDiffX[RHO] = Zero
                                   /\ loc[i].fluxDiffY[RHO] = Zero
                /\ pc[i] >= 988 =>
                      flux[side[i]][RHO] = Mul(loc[i].fluxConv[RHO], len[side[i]])

\* a viscous iteration with a diffusive momentum flux, density gradients and
\* a convective mass flux has ended
C14_Witness ==
    /\ navierstokes
    /\ phase = "flux"
    /\ \E i \in 1..nSides :
          /\ pc[i] = 997
          /\ loc[i].fluxConv[RHO] # Zero
          /\ loc[i].fluxDiffX[MX] # Zero
          /\ loc[i].fluxDiffY[MY] # Zero
          /\ ViscousState(side[i])[2][RHO] # Zero
          /\ ViscousState(side[i])[3][RHO] # Zero


(***************************************************************************)
(* the branches of flux_hll and flux_hlle                                  *)
(***************************************************************************)
\* the signal speeds <<alm, arp>> of the kernel call made, HLL or HLLE
SignalSpeeds ==
    IF iFlux = "HLL"
    THEN hll_speeds(kL[RHO], kR[RHO], kL[VX], kR[VX], kL[VY], kR[VY], kL[P], kR[P])
    ELSE hlle_speeds(kL[RHO], kR[RHO], kL[VX], kR[VX], kL[VY], kR[VY], kL[P], kR[P])

HllCalled == iFlux \in {"HLL", "HLLE"} /\ kflux # <<>>

\* the weighted average of the two waves, written out
TwoWaveAverage(alm, arp) ==
    LET fL == ExactFlux(kL)
        fR == ExactFlux(kR)
        uL == Conserved(kL[RHO], kL[VX], kL[VY], kL[P])
        uR == Conserved(kR[RHO], kR[VX], kR[VY], kR[P])
    IN  [k \in 1..4 |->
            Div(Add(Sub(Mul(arp, fL[k]), Mul(alm, fR[k])),
                    Mul(Mul(arp, alm), Sub(uR[k], uL[k]))),
                Sub(arp, alm))]

HllcCalled == iFlux = "HLLC" /\ kflux # <<>>

HllcSpeeds == hll_speeds(kL[RHO], kR[RHO], kL[VX], kR[VX], kL[VY], kR[VY], kL[P], kR[P])

ContactSpeed ==
    hllc_contact(kL[RHO], kR[RHO], kL[VX], kR[VX], kL[P], kR[P],
                 HllcSpeeds[1], HllcSpeeds[2])

\* the flux across the wave s of the side whose state is st
StarFlux(st, s) ==
    hllc_star(st[RHO], st[VX], st[VY], st[P],
              Energy(st[RHO], st[VX], st[VY], st[P]), s, ContactSpeed,
              Conserved(st[RHO], st[VX], st[VY], st[P]), ExactFlux(st))

\* C16: when alm <= 0 <= arp, flux_hllc uses the star state of the left side
\* exactly when the contact speed is >= 0 and the one of the right side
\* otherwise, and the tangential momentum flux is the mass flux times the
\* tangential velocity of the side chosen
C16_StarSide ==
    (HllcCalled /\ Le(HllcSpeeds[1], Zero) /\ Ge(HllcSpeeds[2], Zero)) =>
        IF Ge(ContactSpeed, Zero)
        THEN /\ kflux = StarFlux(kL, HllcSpeeds[1])
             /\ kflux[MY] = Mul(kflux[RHO], kL[VY])
        ELSE /\ kflux = StarFlux(kR, HllcSpeeds[2])
             /\ kflux[MY] = Mul(kflux[RHO], kR[VY])

\* a call between the waves whose contact moves to the right and whose sides
\* differ in tangential velocity
C16_Witness ==
    /\ HllcCalled
    /\ Lt(HllcSpeeds[1], Zero)
    /\ Gt(HllcSpeeds[2], Zero)
    /\ Gt(ContactSpeed, Zero)
    /\ kL[VY] # kR[VY]
    /\ kL[VY] # Zero
    /\ kflux[RHO] # Zero
    /\ kflux # StarFlux(kR, HllcSpeeds[2])


(***************************************************************************)
(* the upwinding of flux_god                                               *)
(***************************************************************************)
GodCalled == iFlux = "GOD" /\ kflux # <<>>

\* the star state the exact Riemann solver returned to the call made
GodStar ==
    exactRiemann(kL[RHO], kR[RHO], kL[VX], kR[VX], kL[P], kR[P],
                 Sound(kL[RHO], kL[P]), Sound(kR[RHO], kR[P]))

\* the flux of the star state <<rho, vx, p>> with tangential velocity vy
GodunovFlux(rho, vx, p, vy) ==
    <<Mul(rho, vx),
      Add(Mul(rho, Sq(vx)), p),
      Mul(Mul(rho, vx), vy),
      Mul(vx, Add(Mul(Div(gam, Sub(gam, One)), p),
                  Div(Mul(rho, Add(Sq(vx), Sq(vy))), I(2))))>>

\* C17: flux_god uses the left tangential velocity when vx* > 0 and the right
\* one otherwise, vx* = 0 included, and returns the flux of the star state
\* with that tangential velocity
C17_GodunovUpwind ==
    GodCalled =>
        /\ Gt(GodStar[2], Zero) =>
              kflux = GodunovFlux(GodStar[1], GodStar[2], GodStar[3], kL[VY])
        /\ Le(GodStar[2], Zero) =>
              kflux = GodunovFlux(GodStar[1], GodStar[2], GodStar[3], kR[VY])

\* a call whose sides differ in tangential velocity and whose star state
\* moves
C17_Witness ==
    /\ GodCalled
    /\ kL # kR
    /\ kL[VY] # kR[VY]
    /\ GodStar[2] # Zero
    /\ kflux[MY] # Zero


(***************************************************************************)
(* the quadrature of calcSource                                            *)
(***************************************************************************)
\* component k of the weighted sum of evalSource over the first j
\* quadrature points of cell e
RECURSIVE QuadratureSum(_, _, _)
QuadratureSum(e, k, j) ==
    IF j = 0 THEN PZero
    ELSE PAdd(QuadratureSum(e, k, j - 1),
              PScale(evalSource(sourceFunc, xGP[e][j], time, PZeroVec)[k], wGP[e][j]))

\* what a step of the iteration for cell e leaves alone
SourceFrame(e) ==
    /\ \A d \in 1..nElems : d # e => source'[d] = source[d]
    /\ UNCHANGED <<nElems, nGP, xGP, wGP, sourceFunc, time, meshVars, flux, configVars>>

\* C18: the source vector of a cell whose iteration has ended is the sum
\* over the cell's own quadrature points of weight times evalSource, zero
\* without quadrature points, whatever the other iterations have done so
\* far; a step of the iteration for a cell changes the source accumulator of
\* no other cell and no other mesh state
C18_Quadrature ==
    /\ [](phase = "source" =>
             \A e \in 1..nElems :
                 spc[e] = 84 => \A k \in 1..4 : source[e][k] = QuadratureSum(e, k, nGP[e]))
    /\ [][\A e \in 1..nElems : (phase = "source" /\ spc'[e] # spc[e]) => SourceFrame(e)]_vars

\* every iteration of a call has ended: one cell has no quadrature points,
\* another has several
C18_Witness ==
    /\ phase = "source"
    /\ nElems = MaxElems
    /\ sourceFunc = 1
    /\ \A e \in 1..nElems : spc[e] = 84
    /\ \E e \in 1..nElems : nGP[e] = 0 /\ source[e] = PZeroVec
    /\ \E e \in 1..nElems : nGP[e] >= 2 /\ source[e] # PZeroVec


(***************************************************************************)
(* the Mach number regimes of flux_vanleer                                 *)
(***************************************************************************)
VanLeerCalled == iFlux = "VANLEER" /\ kflux # <<>>

\* the Mach number of the state st
Mach(st) == Div(st[VX], Sound(st[RHO], st[P]))

\* the positive split flux of the left state and the negative split flux of
\* the right state of the call made
SplitPlus ==
    vanleer_plus(kL[RHO], kL[VX], kL[VY], kL[P], Sound(kL[RHO], kL[P]),
                 Enthalpy(kL[RHO], kL[VX], kL[VY], kL[P]))

SplitMinus ==
    vanleer_minus(kR[RHO], kR[VX], kR[VY], kR[P], Sound(kR[RHO], kR[P]),
                  Enthalpy(kR[RHO], kR[VX], kR[VY], kR[P]))

\* C19: the positive split flux of flux_vanleer is the physical left flux
\* for ML >= 1 and zero for ML <= -1, the negative split flux is the
\* physical right flux for MR <= -1 and zero for MR >= 1, and the kernel
\* returns their sum
C19_VanLeerRegimes ==
    VanLeerCalled =>
        /\ Ge(Mach(kL), One) => SplitPlus = ExactFlux(kL)
        /\ Le(Mach(kL), Neg(One)) => SplitPlus = ZeroVec
        /\ Le(Mach(kR), Neg(One)) => SplitMinus = ExactFlux(kR)
        /\ Ge(Mach(kR), One) => SplitMinus = ZeroVec
        /\ (Ge(Mach(kL), One) /\ Ge(Mach(kR), One)) => kflux = ExactFlux(kL)
        /\ (Le(Mach(kL), Neg(One)) /\ Le(Mach(kR), Neg(One))) => kflux = ExactFlux(kR)


(***************************************************************************)
(* the entropy fix of flux_roe                                             *)
(***************************************************************************)
RoeCalled == iFlux = "ROE" /\ kflux # <<>>

RoeMeans == RoeMean(kL[RHO], kR[RHO], kL[VX], kR[VX], kL[VY], kR[VY], kL[P], kR[P])

\* the Roe eigenvalues a[i] before the fix, and the eigenvalues al[i] and
\* ar[i] of the left and of the right state
RoeEigenvalues ==
    <<Sub(RoeMeans[1], sqrt(RoeSoundArg(RoeMeans))), RoeMeans[1], RoeMeans[1],
      Add(RoeMeans[1], sqrt(RoeSoundArg(RoeMeans)))>>

LeftEigenvalues ==
    <<Sub(kL[VX], Sound(kL[RHO], kL[P])), kL[VX], kL[VX], Add(kL[VX], Sound(kL[RHO], kL[P]))>>

RightEigenvalues ==
    <<Sub(kR[VX], Sound(kR[RHO], kR[P])), kR[VX], kR[VX], Add(kR[VX], Sound(kR[RHO], kR[P]))>>

\* the spread da of wave i and the wave speed the fix leaves
Spread(i) ==
    fmax(fmax(Zero, Sub(RoeEigenvalues[i], LeftEigenvalues[i])),
         Sub(RightEigenvalues[i], RoeEigenvalues[i]))

Fixed(i) == roe_entropyFix(RoeEigenvalues[i], LeftEigenvalues[i], RightEigenvalues[i])

\* C20: after the entropy fix of flux_roe every wave speed is non-negative
\* and at least the absolute value of the Roe eigenvalue; it differs from
\* that absolute value only where da > |eigenvalue| >= 0, where it is the
\* blend 0.5 * (a^2 / da + da), and it is |eigenvalue| when |eigenvalue| >= da
C20_EntropyFix ==
    RoeCalled =>
        \A i \in 1..4 :
            /\ Ge(Fixed(i), Zero)
            /\ Ge(Fixed(i), fabs(RoeEigenvalues[i]))
            /\ IsFinite(Fixed(i))
            /\ Fixed(i) # fabs(RoeEigenvalues[i]) =>
                  /\ Gt(Spread(i), Zero)
                  /\ Fixed(i) = Mul(Half, Add(Div(Sq(RoeEigenvalues[i]), Spread(i)), Spread(i)))
            /\ Ge(fabs(RoeEigenvalues[i]), Spread(i)) => Fixed(i) = fabs(RoeEigenvalues[i])

\* a call between different states one wave of which is blended while
\* another, of positive spread, is left at its absolute value
C20_Witness ==
    /\ RoeCalled
    /\ kL # kR
    /\ \E i, j \in 1..4 :
          /\ Gt(Spread(i), Zero)
          /\ Fixed(i) = fabs(RoeEigenvalues[i])
          /\ Fixed(j) # fabs(RoeEigenvalues[j])
          /\ RoeEigenvalues[j] # Zero

(***************************************************************************)
(* the divisions of flux_ausmd                                             *)
(***************************************************************************)
AusmdCalled == ausmdD # <<>>

\* the quotients p / rho of both sides are normal doubles
NoUnderflow ==
    /\ IsNormal(FlDiv(kL[P], kL[RHO]))
    /\ IsNormal(FlDiv(kR[P], kR[RHO]))

\* the left, respectively right, velocity is outside (-cm, cm)
LeftSupersonic == ~Lt(fabs(kL[VX]), ausmdD[1].cm)

RightSupersonic == ~Lt(fabs(kR[VX]), ausmdD[1].cm)

====
